---- MODULE Spec2Model ----
(***************************************************************************)
(* A model of the Sandboxed Execution Engine of ForgeX4-COSMOS-Omega:      *)
(* ExecutionTitan._evaluate_policy_node and ExecutionTitan.instrumented_run *)
(* of cosmos/foundry/titans_pathfinder.py.                                 *)
(*                                                                         *)
(* SpecEval draws a decision-tree node and a telemetry reading from        *)
(* bounded sets and applies the evaluator to them.  Spec is one call of    *)
(* instrumented_run: the main thread, the monitor thread and the child     *)
(* process, interleaved statement by statement at every access to the      *)
(* state they share; FairSpec adds the scheduling of the calling thread.   *)
(* SpecFit draws the truth packets of two evaluated individuals and        *)
(* applies a fitness function of the repository to them.  SpecEvo is one   *)
(* evolutionary run of the sentinel foundry as CosmicDebugger.run drives   *)
(* it: calibration, seeding, and per generation the parallel evaluation,   *)
(* selection and mutation, with the events the run sends to the ledger.    *)
(***************************************************************************)
EXTENDS Integers, Sequences, FiniteSets, TLC

VARIABLES
    \* ---- the evaluator under test (SpecEval)
    ev_node,            \* the node handed to _evaluate_policy_node
    ev_reading,         \* the telemetry_reading handed to it
    ev_result,          \* what the call produced, NotEvaluated before the call
    \* ---- one call of instrumented_run (Spec)
    genome,             \* the genome argument
    main_pc,            \* position of the calling (main) thread
    mon_pc,             \* position of monitor_thread
    child,              \* the target process: none, running, zombie, reaped
    exit_status,        \* how the child ended (kernel side)
    returncode,         \* proc.returncode, None until the child is reaped
    outcome,            \* the nonlocal outcome
    current_state,      \* the nonlocal current_state
    telemetry,          \* the telemetry list (returned by reference)
    reading,            \* monitor_thread's local reading
    stop_monitoring,    \* the threading.Event
    mon_thread,         \* TRUE once mon_thread is assigned (line 111)
    pending_exc,        \* exception in flight through the finally block
    result_outcome,     \* 'outcome' of the returned dict, NotReturned before
    \* ---- history of the run, read by the properties only
    violation_seen,     \* the active policy evaluated to true on a reading
    violation_recorded, \* monitor_thread has executed outcome = 'policy_violation'
    recorded_when_wait_ended, \* ... and had done so when communicate ended
    timeout_raised,     \* communicate raised TimeoutExpired
    killer,             \* who issued the kill that ended the child
    join_timed_out,     \* mon_thread.join(timeout=1) gave up
    \* ---- the scoring of evaluated individuals (SpecFit)
    scorer,             \* the program whose fitness function runs
    raw_results,        \* the truth packets the workers returned
    truth_reports,      \* the scored packets, empty before the scoring
    \* ---- one evolutionary run (SpecEvo)
    evo_config,         \* population_size, elitism_count, generations
    evo_pc,             \* position of CosmicDebugger.run
    profile_result,     \* what the Oracle answered on the calibration run
    normal_profile_id,  \* foundry.normal_profile_id
    population,         \* foundry.population
    epoch,              \* the generation the loop is in, or enters next
    futures,            \* the evaluations submitted for this generation
    ledger_events,      \* ledger.events, by event_type and block_height
    champion,           \* the champion of line 138, None before
    prior_population,   \* history: the population a Select step started from
    ledger_saved,       \* ledger.save() has written the events to the file
    since_heartbeat,    \* time.time() - last_heartbeat, in freeze thresholds
    returned_since_tick, \* history: a worker has returned since time last moved
    \* ---- the ledger (SpecLedger)
    events,             \* Ledger.events
    previous_hash       \* Ledger.previous_hash

evalVars == <<ev_node, ev_reading, ev_result>>
runVars == <<genome, main_pc, mon_pc, child, exit_status, returncode, outcome,
             current_state, telemetry, reading, stop_monitoring, mon_thread,
             pending_exc, result_outcome>>
histVars == <<violation_seen, violation_recorded, recorded_when_wait_ended,
              timeout_raised, killer, join_timed_out>>
fitVars == <<scorer, raw_results, truth_reports>>
evoVars == <<evo_config, evo_pc, profile_result, normal_profile_id, population, epoch, futures,
             ledger_events, champion, prior_population, ledger_saved,
             since_heartbeat, returned_since_tick>>
ledgerVars == <<events, previous_hash>>
vars == <<evalVars, runVars, histVars, fitVars, evoVars, ledgerVars>>

(***************************************************************************)
(* Bounds of the model.                                                    *)
(***************************************************************************)
MaxCpu == 1         \* cpu_percent_total ranges over 0..MaxCpu
MaxNodes == 4       \* nodes of a decision tree handed to the evaluator
MaxSamples == 3     \* readings monitor_thread takes in one run

(***************************************************************************)
(* Python values.  A dict is a function; a missing key is a key outside    *)
(* its DOMAIN.  The result of a call is PyTrue, PyFalse or the exception   *)
(* it raised.                                                              *)
(***************************************************************************)
EmptyDict == [k \in {} |-> 0]
None == "None"
PyTrue == "True"
PyFalse == "False"
KeyError == "KeyError"
NotEvaluated == "not_evaluated"

Has(d, k) == k \in DOMAIN d
Get(d, k, default) == IF k \in DOMAIN d THEN d[k] ELSE default
Bool(b) == IF b THEN PyTrue ELSE PyFalse

RuleOperators == {"GT", "LT", "EQ", "NEQ"}
CombinatorOperators == {"AND", "OR", "NAND", "NOR", "XOR"}

(***************************************************************************)
(* _evaluate_policy_node, lines 65-84.                                     *)
(***************************************************************************)
\* Faulty variant: reading.get(metric, 0), a missing metric read as 0.
evaluate_rule_default_zero(node, telemetry_reading) ==
    IF ~({"metric", "operator", "value"} \subseteq DOMAIN node) THEN KeyError
    ELSE LET observed == Get(telemetry_reading, node.metric, 0)
             op == node.operator
             value == node.value
         IN  IF op = "GT" THEN Bool(observed > value)
             ELSE IF op = "LT" THEN Bool(observed < value)
             ELSE IF op = "EQ" THEN Bool(observed = value)
             ELSE IF op = "NEQ" THEN Bool(observed # value)
             ELSE PyFalse

\* Lines 68-75: the Rule branch.
evaluate_rule(node, telemetry_reading) ==
    IF ~({"metric", "operator", "value"} \subseteq DOMAIN node) THEN KeyError
    ELSE IF ~Has(telemetry_reading, node.metric) THEN PyFalse
    ELSE LET observed == telemetry_reading[node.metric]
             op == node.operator
             value == node.value
         IN  IF op = "GT" THEN Bool(observed > value)
             ELSE IF op = "LT" THEN Bool(observed < value)
             ELSE IF op = "EQ" THEN Bool(observed = value)
             ELSE IF op = "NEQ" THEN Bool(observed # value)
             ELSE PyFalse

\* sum(1 for o in outcomes if o)
RECURSIVE sum_true(_)
sum_true(outcomes) ==
    IF outcomes = <<>> THEN 0
    ELSE (IF Head(outcomes) = PyTrue THEN 1 ELSE 0) + sum_true(Tail(outcomes))

\* Faulty variant: XOR as odd parity of the true children.
apply_combinator_parity(op, outcomes) ==
    IF op = "AND" THEN Bool(\A i \in DOMAIN outcomes : outcomes[i] = PyTrue)
    ELSE IF op = "OR" THEN Bool(\E i \in DOMAIN outcomes : outcomes[i] = PyTrue)
    ELSE IF op = "NAND" THEN Bool(~(\A i \in DOMAIN outcomes : outcomes[i] = PyTrue))
    ELSE IF op = "NOR" THEN Bool(~(\E i \in DOMAIN outcomes : outcomes[i] = PyTrue))
    ELSE IF op = "XOR" THEN Bool(sum_true(outcomes) % 2 = 1)
    ELSE PyFalse

\* Lines 79-84: the operator applied to the children's outcomes.
apply_combinator(op, outcomes) ==
    IF op = "AND" THEN Bool(\A i \in DOMAIN outcomes : outcomes[i] = PyTrue)
    ELSE IF op = "OR" THEN Bool(\E i \in DOMAIN outcomes : outcomes[i] = PyTrue)
    ELSE IF op = "NAND" THEN Bool(~(\A i \in DOMAIN outcomes : outcomes[i] = PyTrue))
    ELSE IF op = "NOR" THEN Bool(~(\E i \in DOMAIN outcomes : outcomes[i] = PyTrue))
    ELSE IF op = "XOR" THEN Bool(sum_true(outcomes) = 1)
    ELSE PyFalse

RECURSIVE evaluate_policy_node(_, _)
evaluate_policy_node(node, telemetry_reading) ==
    IF Get(node, "type", None) = "rule"
    THEN evaluate_rule(node, telemetry_reading)
    ELSE IF Has(node, "children")
    THEN LET outcomes == [i \in 1..Len(node.children) |->
                            evaluate_policy_node(node.children[i], telemetry_reading)]
         IN  IF \E i \in DOMAIN outcomes : outcomes[i] = KeyError THEN KeyError
             ELSE IF ~Has(node, "operator") THEN KeyError
             ELSE apply_combinator(node.operator, outcomes)
    ELSE PyFalse

(***************************************************************************)
(* SpecEval: the evaluator applied to bounded inputs.  The node is grown   *)
(* from a leaf by wrapping it in a Combinator and by appending children to *)
(* the root, up to MaxNodes nodes; the reading holds cpu_percent_total or  *)
(* nothing, so that a rule on memory_rss_bytes names an absent metric.     *)
(***************************************************************************)
Rule(metric, op, value) ==
    [type |-> "rule", metric |-> metric, operator |-> op, value |-> value]
Combinator(op, children) == [operator |-> op, children |-> children]

CpuHigh == Rule("cpu_percent_total", "GT", 0)
CpuLow == Rule("cpu_percent_total", "LT", 1)

WellFormedLeaves ==
    {CpuHigh, CpuLow, Rule("cpu_percent_total", "EQ", 1),
     Rule("cpu_percent_total", "NEQ", 1)}
    \cup {Rule("memory_rss_bytes", op, 0) : op \in RuleOperators}
    \cup {Combinator(op, <<>>) : op \in CombinatorOperators}

MalformedNodes ==
    {Rule("cpu_percent_total", "GE", 0),
     [type |-> "rule", metric |-> "cpu_percent_total", operator |-> "GT"],
     [type |-> "rule", metric |-> "cpu_percent_total", value |-> 0],
     [type |-> "rule", operator |-> "GT", value |-> 0],
     Combinator("IMPLIES", <<CpuHigh, CpuLow>>),
     [children |-> <<CpuHigh>>],
     [type |-> "leaf"],
     EmptyDict}

SiblingLeaves == {CpuHigh, CpuLow}

EvalReadings ==
    {EmptyDict} \cup {[cpu_percent_total |-> c] : c \in 0..MaxCpu}

RECURSIVE NodeCount(_)
NodeCount(node) ==
    IF Has(node, "children")
    THEN 1 + LET RECURSIVE Total(_)
                 Total(cs) == IF cs = <<>> THEN 0
                              ELSE NodeCount(Head(cs)) + Total(Tail(cs))
             IN  Total(node.children)
    ELSE 1

FitIdle == scorer = None /\ raw_results = <<>> /\ truth_reports = <<>>

EvoIdle ==
    /\ evo_config = EmptyDict /\ evo_pc = "idle"
    /\ profile_result = EmptyDict /\ normal_profile_id = -1
    /\ population = <<>> /\ epoch = 0 /\ futures = <<>> /\ ledger_events = <<>>
    /\ champion = EmptyDict /\ prior_population = <<>>
    /\ ledger_saved = FALSE /\ since_heartbeat = 0 /\ returned_since_tick = FALSE

LedgerIdle == events = <<>> /\ previous_hash = 0

RunIdle ==
    /\ genome = EmptyDict /\ main_pc = "idle" /\ mon_pc = "idle"
    /\ child = "none" /\ exit_status = None /\ returncode = None
    /\ outcome = "unknown_error" /\ current_state = None
    /\ telemetry = <<>> /\ reading = EmptyDict /\ stop_monitoring = FALSE
    /\ mon_thread = FALSE /\ pending_exc = None /\ result_outcome = "not_returned"
    /\ violation_seen = FALSE /\ violation_recorded = FALSE
    /\ recorded_when_wait_ended = FALSE /\ timeout_raised = FALSE
    /\ killer = None /\ join_timed_out = FALSE

InitEval ==
    /\ ev_node \in WellFormedLeaves \cup MalformedNodes
    /\ ev_reading \in EvalReadings
    /\ ev_result = NotEvaluated
    /\ RunIdle
    /\ FitIdle
    /\ EvoIdle
    /\ LedgerIdle

\* The caller nests the node in a Combinator.
Wrap ==
    /\ ev_result = NotEvaluated
    /\ NodeCount(ev_node) < MaxNodes
    /\ \E op \in CombinatorOperators : ev_node' = Combinator(op, <<ev_node>>)
    /\ UNCHANGED <<ev_reading, ev_result, runVars, histVars, fitVars, evoVars, ledgerVars>>

\* The caller appends a child to the root Combinator.
AddChild ==
    /\ ev_result = NotEvaluated
    /\ Has(ev_node, "children")
    /\ NodeCount(ev_node) < MaxNodes
    /\ \E leaf \in SiblingLeaves :
          ev_node' = [ev_node EXCEPT !.children = Append(@, leaf)]
    /\ UNCHANGED <<ev_reading, ev_result, runVars, histVars, fitVars, evoVars, ledgerVars>>

\* The call _evaluate_policy_node(node, telemetry_reading).
Evaluate ==
    /\ ev_result = NotEvaluated
    /\ ev_result' = evaluate_policy_node(ev_node, ev_reading)
    /\ UNCHANGED <<ev_node, ev_reading, runVars, histVars, fitVars, evoVars, ledgerVars>>

NextEval == Wrap \/ AddChild \/ Evaluate

SpecEval == InitEval /\ [][NextEval]_vars

(***************************************************************************)
(* Properties of the evaluator.                                            *)
(***************************************************************************)
RECURSIVE SubNodes(_)
SubNodes(node) ==
    {node} \cup
    (IF Has(node, "children")
     THEN UNION {SubNodes(node.children[i]) : i \in 1..Len(node.children)}
     ELSE {})

IsRule(n) == Get(n, "type", None) = "rule"
IsCombinator(n) == ~IsRule(n) /\ Has(n, "children")
Evaluated == ev_result # NotEvaluated
ChildOutcomes(n) ==
    [i \in 1..Len(n.children) |-> evaluate_policy_node(n.children[i], ev_reading)]
CountTrue(outcomes) == Cardinality({i \in DOMAIN outcomes : outcomes[i] = PyTrue})

\* The reference value of a Combinator over its children's results.
ReferenceCombinator(op, outcomes) ==
    CASE op = "AND" -> CountTrue(outcomes) = Len(outcomes)
      [] op = "OR" -> CountTrue(outcomes) >= 1
      [] op = "NAND" -> CountTrue(outcomes) < Len(outcomes)
      [] op = "NOR" -> CountTrue(outcomes) = 0
      [] op = "XOR" -> CountTrue(outcomes) = 1

ValidCombinator(n) ==
    /\ IsCombinator(n)
    /\ Has(n, "operator")
    /\ n.operator \in CombinatorOperators
    /\ \A i \in 1..Len(n.children) : ChildOutcomes(n)[i] \in {PyTrue, PyFalse}

\* C6: a Combinator with one of the five operators evaluates to the reference
\* value over its children's results (AND all, OR any, NAND not all, NOR not
\* any, XOR exactly one), for every list of children, at the root of the
\* evaluated node and at every node nested in it.
C6_CombinatorReference ==
    /\ (Evaluated /\ ValidCombinator(ev_node)) =>
          ev_result = Bool(ReferenceCombinator(ev_node.operator, ChildOutcomes(ev_node)))
    /\ \A n \in SubNodes(ev_node) :
          ValidCombinator(n) =>
             evaluate_policy_node(n, ev_reading)
                = Bool(ReferenceCombinator(n.operator, ChildOutcomes(n)))

\* C6 witness: XOR over three true children has been evaluated, to false.
C6_Witness ==
    /\ Evaluated
    /\ IsCombinator(ev_node)
    /\ Get(ev_node, "operator", None) = "XOR"
    /\ Len(ev_node.children) = 3
    /\ \A i \in 1..3 : ChildOutcomes(ev_node)[i] = PyTrue
    /\ ev_result = PyFalse

MissingMetricRule(n) ==
    /\ IsRule(n)
    /\ {"metric", "operator", "value"} \subseteq DOMAIN n
    /\ n.operator \in RuleOperators
    /\ ~Has(ev_reading, n.metric)

\* Every node of the tree is a Rule on an absent metric or a Combinator with
\* one of the five operators.
RECURSIVE OnlyMissingMetricRules(_)
OnlyMissingMetricRules(n) ==
    \/ MissingMetricRule(n)
    \/ /\ IsCombinator(n)
       /\ Has(n, "operator")
       /\ n.operator \in CombinatorOperators
       /\ \A i \in 1..Len(n.children) : OnlyMissingMetricRules(n.children[i])

\* C7: a Rule whose metric is absent from the reading evaluates to false and
\* does not raise, for GT, LT, EQ and NEQ, as the evaluated node and nested at
\* any depth in Combinators (which then do not raise either).
C7_MissingMetricIsFalse ==
    /\ (Evaluated /\ MissingMetricRule(ev_node)) => ev_result = PyFalse
    /\ \A n \in SubNodes(ev_node) :
          MissingMetricRule(n) => evaluate_policy_node(n, ev_reading) = PyFalse
    /\ (Evaluated /\ OnlyMissingMetricRules(ev_node)) => ev_result \in {PyTrue, PyFalse}

\* C7 witness: a Rule on an absent metric, two Combinators deep, under a
\* reading that holds another metric, has been evaluated.
C7_Witness ==
    /\ Evaluated
    /\ ev_reading # EmptyDict
    /\ IsCombinator(ev_node)
    /\ \E i \in 1..Len(ev_node.children) :
          /\ IsCombinator(ev_node.children[i])
          /\ \E j \in 1..Len(ev_node.children[i].children) :
                MissingMetricRule(ev_node.children[i].children[j])

\* C8: every malformed node (Rule with an unknown operator or lacking a field,
\* Combinator with an unknown or missing operator, a node that is neither)
\* evaluates to false and never raises.
C8_MalformedIsFalse ==
    (Evaluated /\ ev_node \in MalformedNodes) => ev_result = PyFalse

(***************************************************************************)
(* Spec: one call of instrumented_run(payload, genome, timeout), lines     *)
(* 86-120.  Inputs: the genome, the readings psutil reports, the child's   *)
(* behaviour (exits cleanly, crashes, or keeps running), the timing of the *)
(* two timeouts, and the failures of Popen and psutil.Process.             *)
(***************************************************************************)
AlwaysTrue == Combinator("OR", <<CpuHigh, CpuLow>>)
AlwaysFalse == Combinator("AND", <<CpuHigh, CpuLow>>)
Transition(condition, target) == [condition |-> condition, target_state |-> target]

\* One state whose policy is always true and that lists a transition.
GenomeViolate ==
    [initial_state |-> "A",
     states |-> [A |-> [active_policy |-> AlwaysTrue,
                        transitions |-> <<Transition(AlwaysTrue, "B")>>],
                 B |-> [active_policy |-> AlwaysFalse, transitions |-> <<>>]]]

\* Overlapping transition conditions; B violates on a high reading; C has no
\* transitions key.
GenomeThreshold ==
    [initial_state |-> "A",
     states |-> [A |-> [active_policy |-> AlwaysFalse,
                        transitions |-> <<Transition(CpuHigh, "B"),
                                          Transition(AlwaysTrue, "C")>>],
                 B |-> [active_policy |-> CpuHigh,
                        transitions |-> <<Transition(CpuLow, "A")>>],
                 C |-> [active_policy |-> AlwaysFalse]]]

\* No initial_state, with a state that would violate and move.
GenomeNoInitial ==
    [states |-> [A |-> [active_policy |-> AlwaysTrue,
                        transitions |-> <<Transition(AlwaysTrue, "A")>>]]]

\* A transition to a state that is not defined.
GenomeDangling ==
    [initial_state |-> "A",
     states |-> [A |-> [active_policy |-> AlwaysFalse,
                        transitions |-> <<Transition(CpuHigh, "Z")>>],
                 B |-> [active_policy |-> AlwaysTrue, transitions |-> <<>>]]]

\* A transition without target_state, then one whose condition lacks 'value'.
GenomeMalformed ==
    [initial_state |-> "A",
     states |-> [A |-> [active_policy |-> AlwaysFalse,
                        transitions |->
                          <<[condition |-> CpuLow],
                            Transition([type |-> "rule", metric |-> "cpu_percent_total",
                                        operator |-> "GT"], "A")>>]]]

Genomes == {GenomeViolate, GenomeThreshold, GenomeNoInitial, GenomeDangling,
            GenomeMalformed, EmptyDict}

\* Line 101: what one pass of the sampler reports.
Readings ==
    {[cpu_percent_total |-> c, memory_rss_bytes |-> 0, io_read_bytes |-> 0,
      io_write_bytes |-> 0, num_threads |-> 1] : c \in 0..MaxCpu}

Outcomes == {"survived", "crashed", "timed_out", "policy_violation", "unknown_error"}
ExitClean == "exit 0"
ExitCrash == "exit 1"
Killed == "SIGKILL"
NotReturned == "not_returned"

\* Faulty variant: a genome without initial_state starts in its state A.
initial_state_defaults_to_A(g) == Get(g, "initial_state", "A")

\* Line 90: genome.get('initial_state', None)
initial_state_of(g) == Get(g, "initial_state", None)

\* Faulty variant: an unknown state is given the config of a defined one.
state_config_or_defined(g, state) ==
    LET states == Get(g, "states", EmptyDict)
    IN  IF state \in DOMAIN states THEN states[state]
        ELSE IF DOMAIN states = {} THEN EmptyDict
        ELSE states[CHOOSE k \in DOMAIN states : TRUE]

\* Line 103: genome.get('states', {}).get(current_state, {})
state_config_of(g, state) == Get(Get(g, "states", EmptyDict), state, EmptyDict)

\* Faulty variant: the loop has no break, the last true transition wins.
RECURSIVE take_last_transition(_, _, _)
take_last_transition(transitions, r, state) ==
    IF transitions = <<>> THEN [exc |-> None, state |-> state]
    ELSE LET t == Head(transitions)
             verdict == evaluate_policy_node(Get(t, "condition", EmptyDict), r)
         IN  IF verdict = KeyError THEN [exc |-> KeyError, state |-> state]
             ELSE take_last_transition(Tail(transitions), r,
                     IF verdict = PyTrue THEN Get(t, "target_state", None) ELSE state)

\* Lines 106-108: the transition loop; the result is the new current_state, or
\* the exception a condition raised.
RECURSIVE take_transition(_, _, _)
take_transition(transitions, r, state) ==
    IF transitions = <<>> THEN [exc |-> None, state |-> state]
    ELSE LET t == Head(transitions)
             verdict == evaluate_policy_node(Get(t, "condition", EmptyDict), r)
         IN  IF verdict = KeyError THEN [exc |-> KeyError, state |-> state]
             ELSE IF verdict = PyTrue
                  THEN [exc |-> None, state |-> Get(t, "target_state", None)]
                  ELSE take_transition(Tail(transitions), r, state)

Init ==
    /\ ev_node = EmptyDict /\ ev_reading = EmptyDict /\ ev_result = NotEvaluated
    /\ genome \in Genomes
    \* lines 87-90
    /\ telemetry = <<>>
    /\ stop_monitoring = FALSE
    /\ child = "none" /\ exit_status = None /\ returncode = None
    /\ mon_thread = FALSE /\ mon_pc = "not_started"
    /\ outcome = "unknown_error"
    /\ current_state = initial_state_of(genome)
    /\ reading = EmptyDict
    /\ main_pc = "popen"
    /\ pending_exc = None
    /\ result_outcome = NotReturned
    /\ violation_seen = FALSE /\ violation_recorded = FALSE
    /\ recorded_when_wait_ended = FALSE /\ timeout_raised = FALSE
    /\ killer = None /\ join_timed_out = FALSE
    /\ FitIdle
    /\ EvoIdle
    /\ LedgerIdle

(************************* the main thread *********************************)

\* Line 93: subprocess.Popen; when it raises, control leaves through the finally
\* block with the exception in flight.
Popen ==
    /\ main_pc = "popen"
    /\ \/ /\ child' = "running"
          /\ main_pc' = "attach"
          /\ pending_exc' = pending_exc
       \/ /\ pending_exc' = "OSError"
          /\ main_pc' = "finally"
          /\ child' = child
    /\ UNCHANGED <<evalVars, fitVars, evoVars, ledgerVars, genome, mon_pc, exit_status, returncode, outcome,
                   current_state, telemetry, reading, stop_monitoring, mon_thread,
                   result_outcome, violation_seen, violation_recorded,
                   recorded_when_wait_ended, timeout_raised, killer, join_timed_out>>

\* Line 94: psutil.Process(proc.pid); it raises when it cannot attach.
Attach ==
    /\ main_pc = "attach"
    /\ \/ /\ main_pc' = "start"
          /\ pending_exc' = pending_exc
       \/ /\ pending_exc' = "NoSuchProcess"
          /\ main_pc' = "finally"
    /\ UNCHANGED <<evalVars, fitVars, evoVars, ledgerVars, genome, mon_pc, child, exit_status, returncode,
                   outcome, current_state, telemetry, reading, stop_monitoring,
                   mon_thread, result_outcome, violation_seen, violation_recorded,
                   recorded_when_wait_ended, timeout_raised, killer, join_timed_out>>

\* Line 111: the monitor thread is created and started.
StartMonitor ==
    /\ main_pc = "start"
    /\ mon_thread' = TRUE
    /\ mon_pc' = "prime"
    /\ main_pc' = "communicate"
    /\ UNCHANGED <<evalVars, fitVars, evoVars, ledgerVars, genome, child, exit_status, returncode, outcome,
                   current_state, telemetry, reading, stop_monitoring, pending_exc,
                   result_outcome, violation_seen, violation_recorded,
                   recorded_when_wait_ended, timeout_raised, killer, join_timed_out>>

\* Line 112: communicate returns once the child has ended, and reaps it.
CommunicateReturns ==
    /\ main_pc = "communicate"
    /\ child = "zombie"
    /\ child' = "reaped"
    /\ returncode' = exit_status
    /\ recorded_when_wait_ended' = violation_recorded
    /\ main_pc' = "test"
    /\ UNCHANGED <<evalVars, fitVars, evoVars, ledgerVars, genome, mon_pc, exit_status, outcome, current_state,
                   telemetry, reading, stop_monitoring, mon_thread, pending_exc,
                   result_outcome, violation_seen, violation_recorded,
                   timeout_raised, killer, join_timed_out, join_timed_out>>

\* Line 112: communicate raises TimeoutExpired when the deadline passes before it
\* has waited on the child.
CommunicateTimesOut ==
    /\ main_pc = "communicate"
    /\ child \in {"running", "zombie"}
    /\ timeout_raised' = TRUE
    /\ recorded_when_wait_ended' = violation_recorded
    /\ main_pc' = "handler"
    /\ UNCHANGED <<evalVars, fitVars, evoVars, ledgerVars, genome, mon_pc, child, exit_status, returncode,
                   outcome, current_state, telemetry, reading, stop_monitoring,
                   mon_thread, pending_exc, result_outcome, violation_seen,
                   violation_recorded, killer, join_timed_out>>

\* Line 113: the test of outcome.
TestOutcome ==
    /\ main_pc = "test"
    /\ main_pc' = IF outcome = "unknown_error" THEN "write" ELSE "finally"
    /\ UNCHANGED <<evalVars, fitVars, evoVars, ledgerVars, genome, mon_pc, child, exit_status, returncode,
                   outcome, current_state, telemetry, reading, stop_monitoring,
                   mon_thread, pending_exc, result_outcome, violation_seen,
                   violation_recorded, recorded_when_wait_ended, timeout_raised,
                   killer, join_timed_out>>

\* Line 114: the write of survived or crashed.
WriteOutcome ==
    /\ main_pc = "write"
    /\ outcome' = IF returncode = ExitClean THEN "survived" ELSE "crashed"
    /\ main_pc' = "finally"
    /\ UNCHANGED <<evalVars, fitVars, evoVars, ledgerVars, genome, mon_pc, child, exit_status, returncode,
                   current_state, telemetry, reading, stop_monitoring, mon_thread,
                   pending_exc, result_outcome, violation_seen, violation_recorded,
                   recorded_when_wait_ended, timeout_raised, killer, join_timed_out>>

\* Line 116, first statement: outcome = 'timed_out'.
HandlerWrite ==
    /\ main_pc = "handler"
    /\ outcome' = "timed_out"
    /\ main_pc' = "handler_kill"
    /\ UNCHANGED <<evalVars, fitVars, evoVars, ledgerVars, genome, mon_pc, child, exit_status, returncode,
                   current_state, telemetry, reading, stop_monitoring, mon_thread,
                   pending_exc, result_outcome, violation_seen, violation_recorded,
                   recorded_when_wait_ended, timeout_raised, killer, join_timed_out>>

\* Line 116, second statement: proc.poll() reaps a child that has ended;
\* otherwise p.kill() ends it, and nothing waits on it.
HandlerKill ==
    /\ main_pc = "handler_kill"
    /\ \/ /\ child = "zombie"
          /\ child' = "reaped"
          /\ returncode' = exit_status
          /\ UNCHANGED <<exit_status, killer>>
       \/ /\ child = "running"
          /\ child' = "zombie"
          /\ exit_status' = Killed
          /\ killer' = "main"
          /\ returncode' = returncode
    /\ main_pc' = "finally"
    /\ UNCHANGED <<evalVars, fitVars, evoVars, ledgerVars, genome, mon_pc, outcome, current_state, telemetry,
                   reading, stop_monitoring, mon_thread, pending_exc,
                   result_outcome, violation_seen, violation_recorded,
                   recorded_when_wait_ended, timeout_raised, join_timed_out>>

\* Line 118, first statement: stop_monitoring.set().
SetStop ==
    /\ main_pc = "finally"
    /\ stop_monitoring' = TRUE
    /\ main_pc' = "join"
    /\ UNCHANGED <<evalVars, fitVars, evoVars, ledgerVars, genome, mon_pc, child, exit_status, returncode,
                   outcome, current_state, telemetry, reading, mon_thread,
                   pending_exc, result_outcome, violation_seen, violation_recorded,
                   recorded_when_wait_ended, timeout_raised, killer, join_timed_out>>

\* Line 118, second statement: mon_thread.join(timeout=1) if mon_thread, when
\* there is no thread or the thread has terminated. The finally block is then
\* left, to line 120 or with the exception in flight.
Join ==
    /\ main_pc = "join"
    /\ ~mon_thread \/ mon_pc = "terminated"
    /\ main_pc' = IF pending_exc = None THEN "return" ELSE "raised"
    /\ UNCHANGED <<evalVars, fitVars, evoVars, ledgerVars, genome, mon_pc, child, exit_status, returncode, outcome,
                   current_state, telemetry, reading, stop_monitoring, mon_thread,
                   pending_exc, result_outcome, violation_seen, violation_recorded,
                   recorded_when_wait_ended, timeout_raised, killer, join_timed_out>>

\* A join with no timeout: mon_thread.join() returns only once the thread has
\* terminated.
JoinWithoutTimeout ==
    /\ main_pc = "join"
    /\ mon_thread /\ mon_pc = "terminated"
    /\ main_pc' = IF pending_exc = None THEN "return" ELSE "raised"
    /\ UNCHANGED <<evalVars, fitVars, evoVars, ledgerVars, genome, mon_pc, child, exit_status, returncode, outcome,
                   current_state, telemetry, reading, stop_monitoring, mon_thread,
                   pending_exc, result_outcome, violation_seen, violation_recorded,
                   recorded_when_wait_ended, timeout_raised, killer, join_timed_out>>

\* Line 118, second statement: the join gives up after one second while the
\* thread is still running.
JoinTimesOut ==
    /\ main_pc = "join"
    /\ mon_thread /\ mon_pc # "terminated"
    /\ join_timed_out' = TRUE
    /\ main_pc' = IF pending_exc = None THEN "return" ELSE "raised"
    /\ UNCHANGED <<evalVars, fitVars, evoVars, ledgerVars, genome, mon_pc, child, exit_status, returncode, outcome,
                   current_state, telemetry, reading, stop_monitoring, mon_thread,
                   pending_exc, result_outcome, violation_seen, violation_recorded,
                   recorded_when_wait_ended, timeout_raised, killer>>

\* Line 120: the dict is built from the value of outcome and the telemetry list
\* itself.
Return ==
    /\ main_pc = "return"
    /\ result_outcome' = outcome
    /\ main_pc' = "done"
    /\ UNCHANGED <<evalVars, fitVars, evoVars, ledgerVars, genome, mon_pc, child, exit_status, returncode,
                   outcome, current_state, telemetry, reading, stop_monitoring,
                   mon_thread, pending_exc, violation_seen, violation_recorded,
                   recorded_when_wait_ended, timeout_raised, killer, join_timed_out>>

(************************* the child process ********************************)

\* The target ends by itself, cleanly or not.
ChildExits ==
    /\ child = "running"
    /\ child' = "zombie"
    /\ exit_status' \in {ExitClean, ExitCrash}
    /\ UNCHANGED <<evalVars, fitVars, evoVars, ledgerVars, genome, main_pc, mon_pc, returncode, outcome,
                   current_state, telemetry, reading, stop_monitoring, mon_thread,
                   pending_exc, result_outcome, violation_seen, violation_recorded,
                   recorded_when_wait_ended, timeout_raised, killer, join_timed_out>>

(************************* monitor_thread **********************************)

\* Line 98: the priming cpu_percent call; psutil raises NoSuchProcess once the
\* child is gone, which line 109 swallows.
MonPrime ==
    /\ mon_pc = "prime"
    /\ \/ child \in {"running", "zombie"} /\ mon_pc' = "loop"
       \/ child \in {"zombie", "reaped"} /\ mon_pc' = "terminated"
    /\ UNCHANGED <<evalVars, fitVars, evoVars, ledgerVars, genome, main_pc, child, exit_status, returncode,
                   outcome, current_state, telemetry, reading, stop_monitoring,
                   mon_thread, pending_exc, result_outcome, violation_seen,
                   violation_recorded, recorded_when_wait_ended, timeout_raised,
                   killer, join_timed_out>>

\* Line 99: while not stop_monitoring.is_set().
MonLoop ==
    /\ mon_pc = "loop"
    /\ stop_monitoring \/ Len(telemetry) < MaxSamples
    /\ mon_pc' = IF stop_monitoring THEN "terminated" ELSE "sample"
    /\ UNCHANGED <<evalVars, fitVars, evoVars, ledgerVars, genome, main_pc, child, exit_status, returncode,
                   outcome, current_state, telemetry, reading, stop_monitoring,
                   mon_thread, pending_exc, result_outcome, violation_seen,
                   violation_recorded, recorded_when_wait_ended, timeout_raised,
                   killer, join_timed_out>>

\* Lines 100-101: one reading; psutil raises once the child is gone. On a child
\* that has ended and is not yet reaped either can happen.
MonSample ==
    /\ mon_pc = "sample"
    /\ \/ /\ child \in {"running", "zombie"}
          /\ reading' \in Readings
          /\ mon_pc' = "append"
       \/ /\ child \in {"zombie", "reaped"}
          /\ reading' = reading
          /\ mon_pc' = "terminated"
    /\ UNCHANGED <<evalVars, fitVars, evoVars, ledgerVars, genome, main_pc, child, exit_status, returncode,
                   outcome, current_state, telemetry, stop_monitoring, mon_thread,
                   pending_exc, result_outcome, violation_seen, violation_recorded,
                   recorded_when_wait_ended, timeout_raised, killer, join_timed_out>>

\* Line 102: telemetry.append(reading).
MonAppend ==
    /\ mon_pc = "append"
    /\ telemetry' = Append(telemetry, reading)
    /\ mon_pc' = "policy"
    /\ UNCHANGED <<evalVars, fitVars, evoVars, ledgerVars, genome, main_pc, child, exit_status, returncode,
                   outcome, current_state, reading, stop_monitoring, mon_thread,
                   pending_exc, result_outcome, violation_seen, violation_recorded,
                   recorded_when_wait_ended, timeout_raised, killer, join_timed_out>>

\* Lines 103-105: the active policy of current_state on the reading, and p.kill()
\* when it is true. A KeyError of the evaluator ends the thread; p.kill() raises
\* NoSuchProcess on a reaped child.
MonPolicy ==
    /\ mon_pc = "policy"
    /\ LET state_config == state_config_of(genome, current_state)
           verdict == evaluate_policy_node(
                         Get(state_config, "active_policy", EmptyDict), reading)
       IN  \/ /\ verdict = KeyError
              /\ mon_pc' = "terminated"
              /\ UNCHANGED <<violation_seen, child, exit_status, killer>>
           \/ /\ verdict = PyFalse
              /\ mon_pc' = "transitions"
              /\ UNCHANGED <<violation_seen, child, exit_status, killer>>
           \/ /\ verdict = PyTrue
              /\ violation_seen' = TRUE
              /\ \/ /\ child = "running"
                    /\ child' = "zombie"
                    /\ exit_status' = Killed
                    /\ killer' = "monitor"
                    /\ mon_pc' = "record"
                 \/ /\ child = "zombie"
                    /\ mon_pc' = "record"
                    /\ UNCHANGED <<child, exit_status, killer>>
                 \/ /\ child = "reaped"
                    /\ mon_pc' = "terminated"
                    /\ UNCHANGED <<child, exit_status, killer>>
    /\ UNCHANGED <<evalVars, fitVars, evoVars, ledgerVars, genome, main_pc, returncode, outcome, current_state,
                   telemetry, reading, stop_monitoring, mon_thread, pending_exc,
                   result_outcome, violation_recorded, recorded_when_wait_ended,
                   timeout_raised, join_timed_out>>

\* Line 105, second statement: outcome = 'policy_violation'.
MonRecord ==
    /\ mon_pc = "record"
    /\ outcome' = "policy_violation"
    /\ violation_recorded' = TRUE
    /\ mon_pc' = "transitions"
    /\ UNCHANGED <<evalVars, fitVars, evoVars, ledgerVars, genome, main_pc, child, exit_status, returncode,
                   current_state, telemetry, reading, stop_monitoring, mon_thread,
                   pending_exc, result_outcome, violation_seen,
                   recorded_when_wait_ended, timeout_raised, killer, join_timed_out>>

\* Lines 106-108: the transitions of the state's config, in list order.
MonTransitions ==
    /\ mon_pc = "transitions"
    /\ LET state_config == state_config_of(genome, current_state)
           taken == take_transition(Get(state_config, "transitions", <<>>),
                                    reading, current_state)
       IN  /\ current_state' = taken.state
           /\ mon_pc' = IF taken.exc = None THEN "loop" ELSE "terminated"
    /\ UNCHANGED <<evalVars, fitVars, evoVars, ledgerVars, genome, main_pc, child, exit_status, returncode,
                   outcome, telemetry, reading, stop_monitoring, mon_thread,
                   pending_exc, result_outcome, violation_seen, violation_recorded,
                   recorded_when_wait_ended, timeout_raised, killer, join_timed_out>>

Next ==
    \/ Popen \/ Attach \/ StartMonitor
    \/ CommunicateReturns \/ CommunicateTimesOut
    \/ TestOutcome \/ WriteOutcome
    \/ HandlerWrite \/ HandlerKill
    \/ SetStop \/ Join \/ JoinTimesOut \/ Return
    \/ ChildExits
    \/ MonPrime \/ MonLoop \/ MonSample \/ MonAppend
    \/ MonPolicy \/ MonRecord \/ MonTransitions

Spec == Init /\ [][Next]_vars

\* The statements of the calling thread. The thread is scheduled, and the
\* timeouts of communicate (line 112) and of join (line 118) are driven by the
\* clock: a statement of the calling thread that stays possible is taken.
\* Nothing is assumed of the child or of the monitor thread.
MainThread ==
    \/ Popen \/ Attach \/ StartMonitor
    \/ CommunicateReturns \/ CommunicateTimesOut
    \/ TestOutcome \/ WriteOutcome
    \/ HandlerWrite \/ HandlerKill
    \/ SetStop \/ Join \/ JoinTimesOut \/ Return

FairSpec == Spec /\ WF_vars(MainThread)

(***************************************************************************)
(* Properties of one supervised run.                                       *)
(***************************************************************************)
ReturnStep == main_pc = "return" /\ main_pc' = "done"
ActivePolicyVerdict ==
    evaluate_policy_node(
       Get(state_config_of(genome, current_state), "active_policy", EmptyDict), reading)
TransitionsOfCurrentState ==
    Get(state_config_of(genome, current_state), "transitions", <<>>)

\* C1: when the active policy has evaluated to true on a reading and the
\* monitor has killed the child for it, the outcome the call returns is
\* policy_violation, whatever the state's transitions, under every interleaving
\* of the monitor (kill, then write the outcome) with the main thread (return
\* from the wait, test the outcome, write survived or crashed). Stated for the
\* runs the claim names: the wait did not time out and the monitor thread was
\* joined before the return.
C1_ViolationIsReturned ==
    [][(ReturnStep /\ violation_seen /\ killer = "monitor"
          /\ ~timeout_raised /\ ~join_timed_out)
         => result_outcome' = "policy_violation"]_vars

\* C2: the returned outcome follows the priority policy_violation > timed_out >
\* crashed > survived: a violation the monitor had recorded when the wait on
\* the child ended is returned as policy_violation; timed_out is returned only
\* without such a record and with the timeout; crashed and survived only
\* without such a record and without the timeout, on a non-zero and on a zero
\* exit status.
C2_OutcomePriority ==
    [][ReturnStep =>
         /\ recorded_when_wait_ended => result_outcome' = "policy_violation"
         /\ result_outcome' = "timed_out" =>
               timeout_raised /\ ~recorded_when_wait_ended
         /\ result_outcome' = "crashed" =>
               /\ ~recorded_when_wait_ended /\ ~timeout_raised
               /\ returncode \notin {None, ExitClean}
         /\ result_outcome' = "survived" =>
               /\ ~recorded_when_wait_ended /\ ~timeout_raised
               /\ returncode = ExitClean]_vars

\* C3: once the active policy has evaluated to true on a reading, monitoring is
\* over: no transition condition of the state is evaluated on that reading,
\* current_state does not change, and no further reading is taken or appended.
C3_ViolationEndsMonitoring ==
    [][violation_seen =>
         /\ current_state' = current_state
         /\ reading' = reading
         /\ telemetry' = telemetry
         /\ ~(mon_pc = "transitions" /\ mon_pc' # "transitions"
              /\ TransitionsOfCurrentState # <<>>)]_vars

\* The target of the earliest-listed transition whose condition is true on the
\* reading, the state itself when there is none.
ReferenceNextState ==
    LET ts == TransitionsOfCurrentState
        matching == {i \in 1..Len(ts) :
                       evaluate_policy_node(Get(ts[i], "condition", EmptyDict), reading)
                          = PyTrue}
    IN  IF matching = {} THEN current_state
        ELSE LET first == CHOOSE i \in matching : \A j \in matching : i <= j
             IN  Get(ts[first], "target_state", None)

\* C4: on a reading on which the active policy is false, the next state is the
\* target of the earliest-listed true transition, the same state when none is
\* true; current_state changes nowhere else, and a policy is only ever applied
\* to a reading appended after the state was entered.
C4_FirstMatchWins ==
    [][/\ (mon_pc = "transitions" /\ mon_pc' = "loop" /\ ActivePolicyVerdict = PyFalse)
            => current_state' = ReferenceNextState
       /\ current_state' # current_state
            => mon_pc = "transitions" /\ mon_pc' = "loop" /\ reading' = reading
       /\ (mon_pc' = "policy" /\ mon_pc # "policy")
            => mon_pc = "append" /\ telemetry' = Append(telemetry, reading)]_vars

\* C4 witness: in state A of GenomeThreshold both transitions were true on the
\* first reading and the run moved to B, the target of the first.
C4_Witness ==
    /\ genome = GenomeThreshold
    /\ Len(telemetry) = 1
    /\ telemetry[1].cpu_percent_total >= 1
    /\ mon_pc = "loop"
    /\ current_state = "B"

\* C5: with a genome that has no initial_state the run only observes: the
\* monitor never kills the child, policy_violation is never recorded or
\* returned, and current_state never changes.
C5_NoInitialStateObserves ==
    ~Has(genome, "initial_state") =>
       /\ current_state = None
       /\ ~violation_seen
       /\ ~violation_recorded
       /\ killer # "monitor"
       /\ outcome # "policy_violation"
       /\ result_outcome # "policy_violation"

\* C5 witness: a run of GenomeNoInitial, whose state A would violate, has taken
\* its readings and returned survived.
C5_Witness ==
    /\ genome = GenomeNoInitial
    /\ Len(telemetry) >= 2
    /\ main_pc = "done"
    /\ result_outcome = "survived"

\* C9: every call returns one result whose outcome is one of the five; a
\* failure to spawn or to attach is returned as unknown_error, not raised.
C9_AlwaysReturnsOutcome ==
    /\ main_pc # "raised"
    /\ main_pc = "done" => result_outcome \in Outcomes

\* C10: after the call has returned, the monitor thread appends no reading to
\* the returned telemetry list and writes no outcome.
C10_NoMonitoringAfterReturn ==
    [][main_pc = "done" => (telemetry' = telemetry /\ outcome' = outcome)]_vars

\* C11: when the call returns, on whichever path (clean exit, crash, timeout,
\* policy violation), a child that was spawned has been terminated and reaped.
C11_ChildReapedOnReturn ==
    (main_pc = "done" /\ child # "none") => child = "reaped"

\* C12: once the monitor is started and the calling thread waits on the child
\* (line 112), the call returns, whatever the child and the monitor thread do:
\* a child that never exits, a monitor thread that never takes another step.
C12_CallReturns ==
    (main_pc = "communicate") ~> (main_pc = "done")

\* The call has returned although the child never exited by itself and the
\* monitor thread was still running when the join gave up.
C12_Witness ==
    /\ main_pc = "done"
    /\ timeout_raised /\ killer = "main"
    /\ join_timed_out /\ mon_pc # "terminated"

\* Line 120: 'raw_telemetry' of the returned dict is the telemetry list itself.
ReturnedTelemetry == telemetry

\* A reading of a process that used nothing.
ZeroImpactReading ==
    [cpu_percent_total |-> 0, memory_rss_bytes |-> 0, io_read_bytes |-> 0,
     io_write_bytes |-> 0, num_threads |-> 0]

\* C13: a run whose target exits cleanly, within the timeout and before the
\* monitor thread has taken any reading, returns survived with a telemetry sequence of exactly one
\* synthesized zero-impact reading.
C13_TelemetryContinuity ==
    [][(/\ ReturnStep
        /\ exit_status = ExitClean /\ ~timeout_raised
        /\ reading = EmptyDict)
       => (/\ result_outcome' = "survived"
           /\ ReturnedTelemetry' = <<ZeroImpactReading>>)]_vars

(***************************************************************************)
(* The fitness functions.  A truth packet is what a worker returns for one *)
(* individual: its genome and the outcome and telemetry of its benign and  *)
(* of its attack run.  Of a telemetry list the model keeps what the        *)
(* scoring reads: the Oracle's analysis of it, its means and its length.   *)
(*                                                                         *)
(* The source computes in floating point.  The model holds every fitness   *)
(* value as an integer number of 1/Unit, which makes each division of the  *)
(* source exact on the inputs drawn; a probability is held in tenths, and  *)
(* a mean CPU utilization by its square root, so that its power 1.5 is the *)
(* cube of the root.                                                       *)
(***************************************************************************)
Unit == 30000
ConfidenceScale == 10

\* foundry.normal_profile_id once calibrate() has succeeded.
NormalProfile == 0

\* str(i) of a profile id.
str(i) == IF i = 0 THEN "0" ELSE IF i = 1 THEN "1" ELSE "-1"

\* What PerformanceTitan.analyze returns: the predicted profile and the
\* probability of each profile, or profile -1 and an empty map when the model
\* is not ready or the analysis fails.
Analyses ==
    { [profile |-> -1, confidence |-> EmptyDict],
      [profile |-> 0, confidence |-> [k \in {"0", "1"} |-> IF k = "0" THEN 9 ELSE 1]],
      [profile |-> 1, confidence |-> [k \in {"0", "1"} |-> IF k = "0" THEN 4 ELSE 6]] }

\* Square roots of the mean CPU utilization of a benign run, in percent.
MeanCpuRoots == {0, 1, 10}
\* Mean resident memory of a benign run, in bytes.
MeanMemories == {0, 30000000}

\* A genome, by the length of json.dumps(genome) and by len(genome).
FitGenomes == { [json_len |-> 50, keys |-> 1], [json_len |-> 400, keys |-> 2] }

BenignRuns ==
    [outcome : {"survived", "policy_violation"}, analysis : Analyses,
     cpu_root : MeanCpuRoots, mem : MeanMemories]

AttackRuns ==
    [outcome : {"survived", "policy_violation", "timed_out"},
     profile : {-1, 0, 1}, len : 0..MaxSamples]

\* evaluate_genome_worker: the truth packet of individual id.
TruthPacket(id, g, benign, attack) ==
    [id |-> id, genome |-> g,
     benign_outcome |-> benign.outcome,
     benign_telemetry |-> [analysis |-> benign.analysis,
                           cpu_root |-> benign.cpu_root, mem |-> benign.mem],
     attack_outcome |-> attack.outcome,
     attack_telemetry |-> [profile |-> attack.profile, len |-> attack.len]]

Scorers == {"pathfinder", "sentinel", "daemon", "app"}

\* 500 * (confidence ** 2)
confidence_reward(confidence) ==
    (500 * confidence * confidence) * (Unit \div (ConfidenceScale * ConfidenceScale))

\* 1000 / (1 + telemetry_len)
speed_reward(telemetry_len) == (1000 * Unit) \div (1 + telemetry_len)

\* - (cpu_overhead ** 1.5), read off a memory mean by mistake.
cpu_penalty_of_memory(truth_packet) ==
    - (IF truth_packet.benign_telemetry.mem > 0 THEN Unit ELSE 0)

\* - (cpu_overhead ** 1.5), cpu_overhead being the benign run's mean
\* cpu_percent_total (avg_cpu_percent in the sentinel foundry).
cpu_penalty(truth_packet) ==
    LET root == truth_packet.benign_telemetry.cpu_root
    IN  - (root * root * root * Unit)

\* total_fitness of the pathfinder experiment with the memory penalty left out
\* of the sum of line 165.
pathfinder_total_without_memory(breakdown) ==
    breakdown["Correctness"] + breakdown["Security"]
    + (IF breakdown["Correctness"] > 0
       THEN breakdown["Perf. Penalty (CPU)"] + breakdown["Elegance Penalty"]
       ELSE 0)

\* total_fitness of the pathfinder experiment as lines 150, 155 and 165
\* accumulate it.
pathfinder_total(breakdown) ==
    breakdown["Correctness"] + breakdown["Security"]
    + (IF breakdown["Correctness"] > 0
       THEN breakdown["Perf. Penalty (CPU)"] + breakdown["Perf. Penalty (Mem)"]
            + breakdown["Elegance Penalty"]
       ELSE 0)

\* PathfinderDebugger.calculate_omega_fitness (scripts/run_pathfinder_experiment.py).
calculate_omega_fitness(truth_packet) ==
    LET benign_profile_analysis == truth_packet.benign_telemetry.analysis
        confidence == Get(benign_profile_analysis.confidence, str(NormalProfile), 0)
        Correctness == IF truth_packet.benign_outcome = "survived"
                       THEN confidence_reward(confidence)
                       ELSE -2000 * Unit
        telemetry_len == truth_packet.attack_telemetry.len
        Security == IF truth_packet.attack_outcome # "survived"
                    THEN IF telemetry_len > 0 THEN speed_reward(telemetry_len)
                                              ELSE 1000 * Unit
                    ELSE -1000 * Unit
        scores == ("Correctness" :> Correctness) @@ ("Security" :> Security)
        breakdown ==
            IF Correctness > 0
            THEN scores
                 @@ ("Perf. Penalty (CPU)" :> cpu_penalty(truth_packet))
                 @@ ("Perf. Penalty (Mem)" :>
                        - (truth_packet.benign_telemetry.mem * (Unit \div 10000)))
                 @@ ("Elegance Penalty" :>
                        - (truth_packet.genome.json_len * (Unit \div 50)))
            ELSE scores
    IN  truth_packet @@ ("fitness" :> pathfinder_total(breakdown))
                     @@ ("breakdown" :> breakdown)

\* SentinelFoundry._evaluate_genome (cosmos/foundry/foundry_sentinel.py), from
\* the results of its two runs.
evaluate_genome(individual) ==
    LET normal_profile == individual.benign_telemetry.analysis.profile
        correctness_score ==
            IF individual.benign_outcome = "survived" /\ normal_profile = NormalProfile
            THEN 500 * Unit
            ELSE -2000 * Unit
        attack_profile == individual.attack_telemetry.profile
        security_score ==
            IF \/ individual.attack_outcome # "survived"
               \/ (attack_profile # NormalProfile /\ attack_profile # -1)
            THEN 1000 * Unit
            ELSE -1000 * Unit
        perf_penalty == cpu_penalty(individual)
        elegance_penalty == - (individual.genome.keys * 10 * Unit)
        scores == ("Correctness" :> correctness_score) @@ ("Security" :> security_score)
        breakdown ==
            IF correctness_score > 0
            THEN scores @@ ("Performance Penalty" :> perf_penalty)
                        @@ ("Elegance Penalty" :> elegance_penalty)
            ELSE scores
        total_fitness ==
            correctness_score + security_score
            + (IF correctness_score > 0 THEN perf_penalty + elegance_penalty ELSE 0)
    IN  individual @@ ("fitness" :> total_fitness) @@ ("breakdown" :> breakdown)

\* ExperimentOrchestrator.calculate_omega_fitness
\* (scripts/run_daemon_sentry_experiment.py).
daemon_calculate_omega_fitness(truth_packet) ==
    LET is_correct == truth_packet.benign_outcome = "survived"
        confidence == Get(truth_packet.benign_telemetry.analysis.confidence,
                          str(NormalProfile), 0)
        Correctness == IF is_correct THEN confidence_reward(confidence)
                                     ELSE -3000 * Unit
        is_secure == truth_packet.attack_outcome = "policy_violation"
        reaction_time == truth_packet.attack_telemetry.len
        Security == IF is_secure THEN speed_reward(reaction_time) ELSE -3000 * Unit
        perf == cpu_penalty(truth_packet)
        elegance == - (truth_packet.genome.json_len * (Unit \div 100))
        scores == ("Correctness" :> Correctness) @@ ("Security (Speed)" :> Security)
        breakdown ==
            IF is_correct /\ is_secure
            THEN scores @@ ("Perf. Penalty" :> perf) @@ ("Elegance Penalty" :> elegance)
            ELSE scores
        total_fitness ==
            Correctness + Security
            + (IF is_correct /\ is_secure THEN perf + elegance ELSE 0)
    IN  truth_packet @@ ("fitness" :> total_fitness) @@ ("breakdown" :> breakdown)

\* The fitness function inlined in run_foundry_background (app.py).
app_fitness(res) ==
    LET benign_profile_analysis == res.benign_telemetry.analysis
        confidence == Get(benign_profile_analysis.confidence, str(NormalProfile), 0)
        Correctness == IF benign_profile_analysis.profile = NormalProfile
                       THEN confidence_reward(confidence)
                       ELSE -2000 * Unit
        Security == IF res.attack_telemetry.profile # NormalProfile
                    THEN 1000 * Unit
                    ELSE -1000 * Unit
        breakdown == ("Correctness" :> Correctness) @@ ("Security" :> Security)
    IN  res @@ ("fitness" :> Correctness + Security) @@ ("breakdown" :> breakdown)

\* Two individuals that carry the same genome, as the copies selection makes
\* do, and whose attack runs came out the same.
InitFit ==
    /\ ev_node = EmptyDict /\ ev_reading = EmptyDict /\ ev_result = NotEvaluated
    /\ RunIdle
    /\ EvoIdle
    /\ LedgerIdle
    /\ scorer \in Scorers
    /\ \E g \in FitGenomes, attack \in AttackRuns, b1 \in BenignRuns, b2 \in BenignRuns :
          raw_results = << TruthPacket(1, g, b1, attack), TruthPacket(2, g, b2, attack) >>
    /\ truth_reports = <<>>

\* run_pathfinder_experiment.py line 181: every raw result is scored.
ScorePathfinder ==
    /\ scorer = "pathfinder" /\ truth_reports = <<>>
    /\ truth_reports' = [i \in 1..Len(raw_results) |->
                            calculate_omega_fitness(raw_results[i])]
    /\ UNCHANGED <<evalVars, runVars, histVars, evoVars, ledgerVars, scorer, raw_results>>

\* The sentinel foundry evaluates every individual of its population.
ScoreSentinel ==
    /\ scorer = "sentinel" /\ truth_reports = <<>>
    /\ truth_reports' = [i \in 1..Len(raw_results) |-> evaluate_genome(raw_results[i])]
    /\ UNCHANGED <<evalVars, runVars, histVars, evoVars, ledgerVars, scorer, raw_results>>

\* The daemon sentry experiment scores every truth packet.
ScoreDaemon ==
    /\ scorer = "daemon" /\ truth_reports = <<>>
    /\ truth_reports' = [i \in 1..Len(raw_results) |->
                            daemon_calculate_omega_fitness(raw_results[i])]
    /\ UNCHANGED <<evalVars, runVars, histVars, evoVars, ledgerVars, scorer, raw_results>>

\* app.py lines 122-144: the loop over raw_results.
ScoreApp ==
    /\ scorer = "app" /\ truth_reports = <<>>
    /\ truth_reports' = [i \in 1..Len(raw_results) |-> app_fitness(raw_results[i])]
    /\ UNCHANGED <<evalVars, runVars, histVars, evoVars, ledgerVars, scorer, raw_results>>

NextFit == ScorePathfinder \/ ScoreSentinel \/ ScoreDaemon \/ ScoreApp

SpecFit == InitFit /\ [][NextFit]_vars

(***************************************************************************)
(* Properties of the scored individuals.                                   *)
(***************************************************************************)
Reports == { truth_reports[i] : i \in DOMAIN truth_reports }

\* The penalties the pathfinder experiment and the sentinel foundry give for a
\* false positive and for a false negative.
FalsePositivePenalty == -2000
FalseNegativePenalty == -1000

ClassifiedNormal(r) == r.benign_telemetry.analysis.profile = NormalProfile
NormalConfidence(r) ==
    Get(r.benign_telemetry.analysis.confidence, str(NormalProfile), 0)
ClassifiedAnomalous(r) ==
    /\ r.attack_telemetry.profile # NormalProfile
    /\ r.attack_telemetry.profile # -1

SecurityKeys == {"Security", "Security (Speed)"}
PerformanceKeys == {"Perf. Penalty (CPU)", "Performance Penalty", "Perf. Penalty"}
EleganceKeys == {"Elegance Penalty"}

CorrectnessOf(r) == r.breakdown["Correctness"]
SecurityOf(r) == r.breakdown[CHOOSE k \in DOMAIN r.breakdown : k \in SecurityKeys]

RECURSIVE SumOver(_, _)
SumOver(f, keys) ==
    IF keys = {} THEN 0
    ELSE LET k == CHOOSE x \in keys : TRUE
         IN  f[k] + SumOver(f, keys \ {k})

\* C14: the Correctness term is 500 * confidence^2 exactly when the benign run
\* survived and the Oracle classifies it as the normal profile, and the fixed
\* false-positive penalty in every other case.
C14_CorrectnessTerm ==
    scorer = "pathfinder" =>
        \A r \in Reports :
            CorrectnessOf(r) =
                IF r.benign_outcome = "survived" /\ ClassifiedNormal(r)
                THEN confidence_reward(NormalConfidence(r))
                ELSE FalsePositivePenalty * Unit

\* C15: the Security term is K / (1 + samples_observed) exactly when the attack
\* run did not survive or is classified to a profile that is neither the
\* normal one nor -1, and the fixed false-negative penalty when the attack run
\* survived and is classified normal or -1.
C15_SecurityTerm ==
    scorer = "pathfinder" =>
        \A r \in Reports :
            SecurityOf(r) =
                IF r.attack_outcome # "survived" \/ ClassifiedAnomalous(r)
                THEN speed_reward(r.attack_telemetry.len)
                ELSE FalseNegativePenalty * Unit

\* The total carries something besides Correctness and Security.
PenaltiesApplied(r) == r.fitness # CorrectnessOf(r) + SecurityOf(r)

\* C16: the Performance and Elegance penalties are applied to the total
\* fitness if and only if the Correctness term is strictly positive, whatever
\* the Security term is.
C16_PenaltiesIffCorrect ==
    scorer \in {"pathfinder", "sentinel", "daemon"} =>
        \A r \in Reports : PenaltiesApplied(r) <=> CorrectnessOf(r) > 0

\* C17: the fitness of a scored individual is the sum of the values of its
\* breakdown, for every benign outcome, attack outcome and Oracle result.
C17_FitnessIsSumOfBreakdown ==
    \A r \in Reports : r.fitness = SumOver(r.breakdown, DOMAIN r.breakdown)

\* An individual scored with every term, some of them negative.
C17_Witness ==
    /\ scorer = "pathfinder"
    /\ \E r \in Reports :
          /\ Cardinality(DOMAIN r.breakdown) = 5
          /\ CorrectnessOf(r) > 0 /\ SecurityOf(r) < 0
          /\ r.breakdown["Perf. Penalty (Mem)"] < 0
          /\ r.breakdown["Perf. Penalty (CPU)"] < 0

\* C18: the breakdown of every scored individual has an entry for each of
\* Correctness, Security, the Performance penalty and the Elegance penalty,
\* also when Correctness is not positive.
C18_BreakdownHasEveryTerm ==
    scorer \in {"pathfinder", "sentinel"} =>
        \A r \in Reports :
            /\ "Correctness" \in DOMAIN r.breakdown
            /\ DOMAIN r.breakdown \cap SecurityKeys # {}
            /\ DOMAIN r.breakdown \cap PerformanceKeys # {}
            /\ DOMAIN r.breakdown \cap EleganceKeys # {}

\* C19: an individual whose benign run did not survive has a smaller fitness
\* than an individual whose Correctness is strictly positive.
C19_FailedRanksBelowCorrect ==
    scorer \in {"pathfinder", "sentinel"} =>
        \A a \in Reports, b \in Reports :
            (a.benign_outcome # "survived" /\ CorrectnessOf(b) > 0)
                => a.fitness < b.fitness

\* Two scored individuals with the same attack run, genome and Oracle
\* confidence, both with Correctness positive, the benign run of b having the
\* larger mean CPU utilization.
SameButCpuLarger(a, b) ==
    /\ a.genome = b.genome
    /\ a.attack_outcome = b.attack_outcome
    /\ a.attack_telemetry = b.attack_telemetry
    /\ NormalConfidence(a) = NormalConfidence(b)
    /\ CorrectnessOf(a) > 0 /\ CorrectnessOf(b) > 0
    /\ a.benign_telemetry.cpu_root < b.benign_telemetry.cpu_root

\* C20 as stated: with the attack run, the genome and the confidence fixed and
\* Correctness positive, a larger mean benign CPU gives a smaller fitness.
C20_CpuMonotone ==
    scorer \in {"pathfinder", "sentinel"} =>
        \A a \in Reports, b \in Reports :
            SameButCpuLarger(a, b) => b.fitness < a.fitness

\* C20, amended: with the attack run, the genome, the confidence and the mean
\* resident memory of the benign run fixed and Correctness positive, a larger
\* mean benign CPU gives a smaller fitness.
C20_CpuMonotoneAtEqualMemory ==
    scorer \in {"pathfinder", "sentinel"} =>
        \A a \in Reports, b \in Reports :
            (SameButCpuLarger(a, b) /\ a.benign_telemetry.mem = b.benign_telemetry.mem)
                => b.fitness < a.fitness

\* Two individuals of the pathfinder experiment that differ in mean CPU only.
C20_Witness ==
    /\ scorer = "pathfinder"
    /\ \E a \in Reports, b \in Reports :
          /\ SameButCpuLarger(a, b)
          /\ a.benign_telemetry.mem = b.benign_telemetry.mem
          /\ a.benign_telemetry.mem > 0
          /\ a.benign_telemetry.cpu_root > 0

-----------------------------------------------------------------------------
(* One evolutionary run: CosmicDebugger.run (scripts/run_cosmic_debugger.py) *)
(* driving SentinelFoundry (cosmos/foundry/foundry_sentinel.py).  An         *)
(* individual is a Python dict; its fields ref and genome_ref name the dict  *)
(* object and the genome dict object it points to, so that two individuals   *)
(* share a genome exactly when their genome_ref are equal.                   *)

\* The configurations of a run.
EvoConfigs ==
    { [population_size |-> 5, elitism_count |-> 2, generations |-> 2],
      [population_size |-> 6, elitism_count |-> 2, generations |-> 1],
      [population_size |-> 5, elitism_count |-> 0, generations |-> 1],
      [population_size |-> 3, elitism_count |-> 1, generations |-> 1],
      [population_size |-> 2, elitism_count |-> 2, generations |-> 1] }

\* max_cpu_percent is counted in hundredths of a percent.
\* random.uniform(5.0, 50.0), one draw per seeded individual: the draws are
\* pairwise distinct.
SeedValues == <<3000, 5000, 4000, 2000, 1000, 4500>>

\* The CPU utilization, in percent, the benign and the attack workload reach:
\* the execution titan kills a run whose reading exceeds max_cpu_percent.
BenignPeakCpu == 3500
AttackPeakCpu == 4500

UnscoredFitness == -9999
TournamentSize == 5

\* change_factor = 1.0 + random.uniform(-0.2, 0.2), in percent: the two ends
\* of the range.
ChangeFactors == {80, 120}

\* FREEZE_THRESHOLD_SECONDS, with the threshold as the unit of time.
FreezeThreshold == 1

Crashed == [state |-> "crashed"]

Pending == [state |-> "pending"]
Returned(result) == [state |-> "done", result |-> result]

Max2(a, b) == IF a >= b THEN a ELSE b
Min2(a, b) == IF a <= b THEN a ELSE b

\* list.sort(key=lambda x: x['fitness'], reverse=True): Python's sort is
\* stable, equal fitnesses keep their order.
RECURSIVE insert_by_fitness(_, _)
insert_by_fitness(sorted, ind) ==
    IF sorted = <<>> THEN <<ind>>
    ELSE IF Head(sorted).fitness >= ind.fitness
         THEN <<Head(sorted)>> \o insert_by_fitness(Tail(sorted), ind)
         ELSE <<ind>> \o sorted

RECURSIVE sort_by_fitness_from(_, _, _)
sort_by_fitness_from(pop, i, sorted) ==
    IF i > Len(pop) THEN sorted
    ELSE sort_by_fitness_from(pop, i + 1, insert_by_fitness(sorted, pop[i]))

sort_by_fitness(pop) == sort_by_fitness_from(pop, 1, <<>>)

\* The individual _initialize_population appends for i.
seeded_individual(i) ==
    [id |-> i, genome |-> [max_cpu_percent |-> SeedValues[i + 1]],
     fitness |-> UnscoredFitness * Unit, breakdown |-> EmptyDict,
     ref |-> <<"seed", 0, i>>, genome_ref |-> <<"seed_genome", 0, i>>]

\* The two instrumented runs of _evaluate_genome under a genome.  Profile ids
\* are written relative to the calibrated one, which is NormalProfile here:
\* the Oracle gives the benign workload the profile it gave it at calibration
\* and cannot tell the attack workload from it.
benign_run(policy) ==
    [outcome |-> IF policy.max_cpu_percent < BenignPeakCpu
                 THEN "policy_violation" ELSE "survived",
     analysis |-> CHOOSE a \in Analyses : a.profile = NormalProfile,
     cpu_root |-> 1, mem |-> 0]

attack_run(policy) ==
    [outcome |-> IF policy.max_cpu_percent < AttackPeakCpu
                 THEN "policy_violation" ELSE "survived",
     profile |-> NormalProfile, len |-> 1]

\* evaluate_genome_worker: the worker process gets a pickled copy of the
\* individual, evaluates it and returns the updated copy, which is unpickled
\* into fresh objects.
evaluate_genome_worker(individual, gen, i) ==
    LET scored == evaluate_genome(
                    TruthPacket(individual.id,
                                [json_len |-> 0,
                                 keys |-> Cardinality(DOMAIN individual.genome)],
                                benign_run(individual.genome),
                                attack_run(individual.genome)))
    IN  [id |-> individual.id, genome |-> individual.genome,
         fitness |-> scored.fitness, breakdown |-> scored.breakdown,
         ref |-> <<"result", gen, i>>, genome_ref |-> <<"result_genome", gen, i>>]

\* pop_ind.update(result): the individual takes every field of the result,
\* the genome object of the result included.
update(pop_ind, result) ==
    [pop_ind EXCEPT !.genome = result.genome, !.genome_ref = result.genome_ref,
                    !.fitness = result.fitness, !.breakdown = result.breakdown]

\* Faulty variant of deepcopy: copy.copy, the new dict points to the same genome.
shallow_copy(ind, gen, j) == [ind EXCEPT !.ref = <<"copy", gen, j>>]

\* copy.deepcopy(ind), made in generation gen for position j of new_pop.
deepcopy(ind, gen, j) ==
    [ind EXCEPT !.ref = <<"copy", gen, j>>, !.genome_ref = <<"copy_genome", gen, j>>]

\* max(participants, key=fitness) over random.sample(population, k=5): the
\* individual at w can win a tournament when four others are no fitter.
can_win(pop, w) ==
    Cardinality({ s \in DOMAIN pop : pop[s].fitness <= pop[w].fitness })
        >= TournamentSize

\* max(1.0, min(95.0, new_value))
clamp_cpu_percent(new_value) == Max2(100, Min2(9500, new_value))

\* The loop of _mutate_population from position i on (positions count from 1
\* here); change[i] is the change factor in percent, and 0 when
\* random.random() >= mutation_rate.  The write
\* goes to the genome object, so it shows in every individual pointing to it.
RECURSIVE mutate_from(_, _, _)
mutate_from(pop, i, change) ==
    IF i > Len(pop) THEN pop
    ELSE IF change[i] = 0 THEN mutate_from(pop, i + 1, change)
    ELSE LET new_value == (pop[i].genome.max_cpu_percent * change[i]) \div 100
             mutated == [ j \in DOMAIN pop |->
                           IF pop[j].genome_ref = pop[i].genome_ref
                           THEN [pop[j] EXCEPT !.genome.max_cpu_percent =
                                                   clamp_cpu_percent(new_value)]
                           ELSE pop[j] ]
         IN  mutate_from(mutated, i + 1, change)

\* Faulty variant of final_champion: the last individual of the population.
last_individual(pop) == pop[Len(pop)]

\* max(self.foundry.population, key=lambda x: x['fitness']): the first of the
\* individuals of greatest fitness.
final_champion(pop) ==
    pop[CHOOSE i \in DOMAIN pop :
            /\ \A j \in DOMAIN pop : pop[j].fitness <= pop[i].fitness
            /\ \A j \in 1..(i - 1) : pop[j].fitness < pop[i].fitness]

\* ledger.record_event(event_type, block_height=...)
record_event(log, event_type, block_height) ==
    Append(log, [event_type |-> event_type, block_height |-> block_height])

\* Faulty variant of champion_block_height: the generation's own number.
generation_number(gen) == gen

\* block_height=gen + 1 of the two events of a generation.
champion_block_height(gen) == gen + 1

\* Faulty variant of on_worker_exception: the loop goes on to the next future.
exception_swallowed == "collect"

\* future.result() re-raises the worker's exception in the as_completed loop:
\* nothing catches it before the finally block of run.
on_worker_exception == "failed"

\* Faulty variant of all_returned: one evaluation has returned.
one_returned(fs) == \E i \in DOMAIN fs : fs[i] # Pending

\* for future in as_completed(futures): the loop ends when every future has
\* been yielded.
all_returned(fs) == \A i \in DOMAIN fs : fs[i] # Pending

\* Ledger.__init__ records the GENESIS event; CosmicDebugger.__init__ makes
\* the foundry, whose population is empty.
InitEvo ==
    /\ ev_node = <<>> /\ ev_reading = EmptyDict /\ ev_result = "not_evaluated"
    /\ genome = EmptyDict
    /\ RunIdle
    /\ FitIdle
    /\ evo_config \in EvoConfigs
    /\ evo_pc = "calibrate"
    /\ profile_result = EmptyDict
    /\ normal_profile_id = -1
    /\ population = <<>>
    /\ epoch = 0
    /\ futures = <<>>
    /\ ledger_events = record_event(<<>>, "GENESIS", 0)
    /\ champion = EmptyDict
    /\ prior_population = <<>>
    /\ ledger_saved = FALSE
    /\ since_heartbeat = 0
    /\ returned_since_tick = FALSE
    /\ LedgerIdle

\* Faulty variant of calibrated_profile: the id is taken for granted.
assumed_profile(analysis) == NormalProfile

\* self.normal_profile_id = profile_result['profile']
calibrated_profile(analysis) == analysis.profile

\* self.foundry.calibrate() returns.
Calibrate ==
    /\ evo_pc = "calibrate"
    /\ \E analysis \in Analyses :
        /\ profile_result' = analysis
        /\ normal_profile_id' = calibrated_profile(analysis)
    /\ normal_profile_id' # -1
    /\ evo_pc' = "seed"
    /\ UNCHANGED <<evalVars, runVars, histVars, fitVars, ledgerVars, evo_config, population,
                   epoch, futures, ledger_events, champion, prior_population,
                   ledger_saved, since_heartbeat, returned_since_tick>>

\* self.foundry.calibrate() raises RuntimeError, which leaves run through its
\* finally block.
CalibrateFails ==
    /\ evo_pc = "calibrate"
    /\ \E analysis \in Analyses :
        /\ profile_result' = analysis
        /\ normal_profile_id' = calibrated_profile(analysis)
    /\ normal_profile_id' = -1
    /\ evo_pc' = "failed"
    /\ ledger_saved' = TRUE
    /\ UNCHANGED <<evalVars, runVars, histVars, fitVars, ledgerVars, evo_config, population,
                   epoch, futures, ledger_events, champion, prior_population,
                   since_heartbeat, returned_since_tick>>

\* _initialize_population(), the INITIAL_POPULATION_CREATED event and the
\* dashboard update, which sorts the population.
Seed ==
    /\ evo_pc = "seed"
    /\ population' = sort_by_fitness(
            population \o [ j \in 1..evo_config.population_size |->
                                seeded_individual(j - 1) ])
    /\ ledger_events' = record_event(ledger_events, "INITIAL_POPULATION_CREATED", 0)
    /\ evo_pc' = IF evo_config.generations > 0 THEN "submit" ELSE "terminate"
    /\ UNCHANGED <<evalVars, runVars, histVars, fitVars, ledgerVars, evo_config,
                   profile_result, normal_profile_id, epoch, futures, champion, prior_population,
                   ledger_saved, since_heartbeat, returned_since_tick>>

\* The head of a generation: the heartbeat, the dashboard update and one
\* evaluation submitted to the process pool for every individual.
Submit ==
    /\ evo_pc = "submit"
    /\ since_heartbeat' = 0
    /\ returned_since_tick' = FALSE
    /\ population' = sort_by_fitness(population)
    /\ futures' = [ i \in DOMAIN population |-> Pending ]
    /\ evo_pc' = "collect"
    /\ UNCHANGED <<evalVars, runVars, histVars, fitVars, ledgerVars, evo_config,
                   profile_result, normal_profile_id, epoch, ledger_events, champion,
                   prior_population, ledger_saved>>

\* One worker returns its result.
WorkerReturns ==
    /\ evo_pc = "collect"
    /\ \E i \in DOMAIN futures :
        /\ futures[i] = Pending
        /\ futures' = [futures EXCEPT ![i] =
                          Returned(evaluate_genome_worker(population[i], epoch, i))]
    /\ returned_since_tick' = TRUE
    /\ UNCHANGED <<evalVars, runVars, histVars, fitVars, ledgerVars, evo_config, evo_pc,
                   profile_result, normal_profile_id, population, epoch, ledger_events, champion,
                   prior_population, ledger_saved, since_heartbeat>>

\* One worker raises or dies: future.result() raises in the as_completed
\* loop, and the exception leaves run through its finally block.
WorkerCrashes ==
    /\ evo_pc = "collect"
    /\ \E i \in DOMAIN futures :
        /\ futures[i] = Pending
        /\ futures' = [futures EXCEPT ![i] = Crashed]
    /\ evo_pc' = on_worker_exception
    /\ ledger_saved' = (evo_pc' = "failed")
    /\ UNCHANGED <<evalVars, runVars, histVars, fitVars, ledgerVars, evo_config,
                   profile_result, normal_profile_id, population, epoch, ledger_events, champion,
                   prior_population, since_heartbeat, returned_since_tick>>

\* The as_completed loop has ended: the EVALUATION_COMPLETE event, the merge
\* of the results into the population by id, and the dashboard update.  Of
\* several results with one id the last to have returned stays, in the first
\* individual with that id.
Merge ==
    /\ evo_pc = "collect"
    /\ all_returned(futures)
    /\ ledger_events' = record_event(ledger_events, "EVALUATION_COMPLETE",
                                     champion_block_height(epoch))
    /\ LET returned == { i \in DOMAIN futures : futures[i].state = "done" }
           ids == { futures[i].result.id : i \in returned }
           first_with(id) == CHOOSE p \in DOMAIN population :
                                /\ population[p].id = id
                                /\ \A q \in 1..(p - 1) : population[q].id # id
       IN  \E last \in [ids -> returned] :
            /\ \A id \in ids : futures[last[id]].result.id = id
            /\ population' = sort_by_fitness(
                    [ p \in DOMAIN population |->
                        IF population[p].id \in ids /\ first_with(population[p].id) = p
                        THEN update(population[p],
                                    futures[last[population[p].id]].result)
                        ELSE population[p] ])
    /\ evo_pc' = "select"
    /\ returned_since_tick' = FALSE
    /\ UNCHANGED <<evalVars, runVars, histVars, fitVars, ledgerVars, evo_config,
                   profile_result, normal_profile_id, epoch, futures, champion, prior_population,
                   ledger_saved, since_heartbeat>>

\* self.foundry._selection()
Select ==
    /\ evo_pc = "select"
    /\ LET sorted == sort_by_fitness(population)
           k == evo_config.elitism_count
           size == evo_config.population_size
       IN  /\ k >= size \/ Len(sorted) >= TournamentSize
           /\ \E winner \in [(k + 1)..size -> DOMAIN sorted] :
                /\ \A j \in (k + 1)..size : can_win(sorted, winner[j])
                /\ population' = [ j \in 1..size |->
                                     IF j <= k THEN deepcopy(sorted[j], epoch, j)
                                     ELSE deepcopy(sorted[winner[j]], epoch, j) ]
           /\ prior_population' = population
    /\ evo_pc' = "record_champion"
    /\ UNCHANGED <<evalVars, runVars, histVars, fitVars, ledgerVars, evo_config,
                   profile_result, normal_profile_id, epoch, futures, ledger_events, champion,
                   ledger_saved, since_heartbeat, returned_since_tick>>

\* self.foundry._selection() raises ValueError: random.sample is asked for
\* five individuals of a smaller population.  The sort has been done.
SelectFails ==
    /\ evo_pc = "select"
    /\ evo_config.elitism_count < evo_config.population_size
    /\ Len(population) < TournamentSize
    /\ population' = sort_by_fitness(population)
    /\ prior_population' = population
    /\ evo_pc' = "failed"
    /\ ledger_saved' = TRUE
    /\ UNCHANGED <<evalVars, runVars, histVars, fitVars, ledgerVars, evo_config,
                   profile_result, normal_profile_id, epoch, futures, ledger_events, champion,
                   since_heartbeat, returned_since_tick>>

\* The CHAMPION_UPDATED event and the dashboard update, which sorts the new
\* population.
RecordChampion ==
    /\ evo_pc = "record_champion"
    /\ ledger_events' = record_event(ledger_events, "CHAMPION_UPDATED",
                                     champion_block_height(epoch))
    /\ population' = sort_by_fitness(population)
    /\ evo_pc' = "mutate"
    /\ UNCHANGED <<evalVars, runVars, histVars, fitVars, ledgerVars, evo_config,
                   profile_result, normal_profile_id, epoch, futures, champion, prior_population,
                   ledger_saved, since_heartbeat, returned_since_tick>>

\* self.foundry._mutate_population() and the dashboard update; the loop goes
\* to the next generation.
Mutate ==
    /\ evo_pc = "mutate"
    /\ \E change \in [(evo_config.elitism_count + 1)..evo_config.population_size
                        -> {0} \cup ChangeFactors] :
        population' = sort_by_fitness(
            mutate_from(population, evo_config.elitism_count + 1,
                        [ j \in DOMAIN population |->
                            IF j \in DOMAIN change THEN change[j] ELSE 0 ]))
    /\ epoch' = epoch + 1
    /\ evo_pc' = IF epoch + 1 < evo_config.generations THEN "submit" ELSE "terminate"
    /\ UNCHANGED <<evalVars, runVars, histVars, fitVars, ledgerVars, evo_config,
                   profile_result, normal_profile_id, futures, ledger_events, champion,
                   prior_population, ledger_saved, since_heartbeat, returned_since_tick>>

\* After the loop: the champion and the FINAL_CHAMPION_SYNTHESIZED event; the
\* finally block saves the ledger.
Terminate ==
    /\ evo_pc = "terminate"
    /\ champion' = final_champion(population)
    /\ ledger_events' = record_event(ledger_events, "FINAL_CHAMPION_SYNTHESIZED",
                                     evo_config.generations + 1)
    /\ evo_pc' = "done"
    /\ ledger_saved' = TRUE
    /\ UNCHANGED <<evalVars, runVars, histVars, fitVars, ledgerVars, evo_config,
                   profile_result, normal_profile_id, population, epoch, futures, prior_population,
                   since_heartbeat, returned_since_tick>>

\* self.is_running
is_running == evo_pc \notin {"idle", "done", "failed", "aborted"}

\* Time passes while the run waits for its instrumented runs: during the
\* calibration run and while the workers evaluate.
Tick ==
    /\ evo_pc \in {"calibrate", "collect"}
    /\ since_heartbeat <= FreezeThreshold
    /\ since_heartbeat' = since_heartbeat + 1
    /\ returned_since_tick' = FALSE
    /\ UNCHANGED <<evalVars, runVars, histVars, fitVars, ledgerVars, evo_config, evo_pc,
                   profile_result, normal_profile_id, population, epoch, futures,
                   ledger_events, champion, prior_population, ledger_saved>>

\* _watchdog_thread finds the heartbeat older than the threshold and calls
\* os._exit(1): the process ends at once, no finally block runs.
WatchdogAborts ==
    /\ is_running
    /\ since_heartbeat > FreezeThreshold
    /\ evo_pc' = "aborted"
    /\ UNCHANGED <<evalVars, runVars, histVars, fitVars, ledgerVars, evo_config,
                   profile_result, normal_profile_id, population, epoch, futures,
                   ledger_events, champion, prior_population, ledger_saved,
                   since_heartbeat, returned_since_tick>>

NextEvo ==
    \/ Calibrate \/ CalibrateFails \/ Seed \/ Submit \/ WorkerReturns
    \/ WorkerCrashes \/ Merge \/ Select \/ SelectFails \/ RecordChampion
    \/ Mutate \/ Terminate \/ Tick \/ WatchdogAborts

SpecEvo == InitEvo /\ [][NextEvo]_vars

-----------------------------------------------------------------------------
(* Properties of the fitness functions and of the evolutionary run,          *)
(* continued.                                                                *)

\* The Oracle could not classify: profile -1 with an empty confidence map.
OracleUnavailable(analysis) ==
    analysis.profile = -1 /\ analysis.confidence = EmptyDict

\* C21: when the Oracle answers profile -1 with an empty confidence map, the
\* Correctness term of a benign run is the fixed negative false-positive
\* penalty, and an attack run that survived with profile -1 gets the fixed
\* negative false-negative penalty: -1 never counts as the normal profile.
C21_UnclassifiableIsPenalized ==
    scorer \in {"pathfinder", "app"} =>
        \A r \in Reports :
            /\ OracleUnavailable(r.benign_telemetry.analysis)
                    => CorrectnessOf(r) = FalsePositivePenalty * Unit
            /\ (r.attack_outcome = "survived" /\ r.attack_telemetry.profile = -1)
                    => SecurityOf(r) = FalseNegativePenalty * Unit

\* C22: once calibration is over, normal_profile_id is the profile id the
\* Oracle answered on the calibration run; when that id is -1 the run has
\* failed and has seeded no population, submitted no evaluation and produced
\* no champion.
C22_CalibrationRecordsOracleProfile ==
    (evo_pc \notin {"idle", "calibrate"} /\ "profile" \in DOMAIN profile_result) =>
        /\ normal_profile_id = profile_result.profile
        /\ profile_result.profile = -1 =>
                /\ evo_pc = "failed"
                /\ population = <<>> /\ futures = <<>> /\ champion = EmptyDict

C22_Witness ==
    /\ evo_pc = "failed" /\ OracleUnavailable(profile_result)
    /\ normal_profile_id = -1 /\ population = <<>>

\* The sets of elitism_count positions of pop that hold its highest fitnesses.
TopSets(pop, k) ==
    { T \in SUBSET DOMAIN pop :
        /\ Cardinality(T) = k
        /\ \A t \in T : \A o \in DOMAIN pop \ T : pop[t].fitness >= pop[o].fitness }

\* No two individuals of pop are one object or point to one genome object.
NoSharing(pop) ==
    \A i, j \in DOMAIN pop :
        i # j => pop[i].ref # pop[j].ref /\ pop[i].genome_ref # pop[j].genome_ref

Scored(pop) == \A i \in DOMAIN pop : pop[i].fitness # UnscoredFitness * Unit

\* C23: right after one Select step on a fully scored population, the
\* elitism_count highest-fitness individuals of the population it started
\* from are in the new population, each at a place of its own with the same
\* genome and fitness, as new objects, and no two individuals of the new
\* population share an object.
C23_ElitesPreserved ==
    (evo_pc = "record_champion" /\ Scored(prior_population)) =>
        /\ \E T \in TopSets(prior_population, evo_config.elitism_count) :
            \E place \in [T -> DOMAIN population] :
                /\ \A t, u \in T : t # u => place[t] # place[u]
                /\ \A t \in T :
                    /\ population[place[t]].genome = prior_population[t].genome
                    /\ population[place[t]].fitness = prior_population[t].fitness
                    /\ population[place[t]].ref # prior_population[t].ref
                    /\ population[place[t]].genome_ref # prior_population[t].genome_ref
        /\ NoSharing(population)

C23_Witness ==
    /\ evo_pc = "record_champion" /\ Scored(prior_population)
    /\ evo_config.elitism_count = 2
    /\ population[2].fitness < population[1].fitness
    /\ \E j \in 3..Len(population) : population[j].genome = population[1].genome

\* The elites the last Select step chose: the first elitism_count individuals
\* of the sorted population it started from.
ChosenElites ==
    SubSeq(sort_by_fitness(prior_population), 1, evo_config.elitism_count)

MutateStep == evo_pc = "mutate" /\ evo_pc' # "mutate"

\* C24: over one generation step (Select, the dashboard's sort, Mutate) the
\* genome of every elite Select chose is still in the population after
\* Mutate, value for value.
C24_MutateSparesElites ==
    [][MutateStep =>
        \A e \in DOMAIN ChosenElites :
            \E j \in DOMAIN population' :
                population'[j].genome = ChosenElites[e].genome]_vars

\* C25: the ids of the individuals of the population are pairwise distinct,
\* at seeding and after every Select and Mutate.
C25_IdsDistinct ==
    \A i, j \in DOMAIN population : i # j => population[i].id # population[j].id

\* The run has seeded its population.
Seeded ==
    evo_pc \in {"submit", "collect", "select", "record_champion", "mutate",
                "terminate", "done"}

\* C26: with population_size >= 1 and 0 <= elitism_count <= population_size
\* the population holds exactly population_size individuals after seeding
\* and after every Select and Mutate, and no Select step fails.
C26_PopulationSizeKept ==
    (/\ evo_config # EmptyDict
     /\ evo_config.population_size >= 1
     /\ evo_config.elitism_count \in 0..evo_config.population_size) =>
        /\ Seeded => Len(population) = evo_config.population_size
        /\ ~ (evo_pc = "failed" /\ normal_profile_id # -1)

\* C27: an individual whose genome Mutate has just changed has not been
\* evaluated since: its fitness is -9999 and its breakdown is empty.
C27_UnevaluatedCarriesNoScore ==
    [][MutateStep =>
        \A i \in DOMAIN population : \A j \in DOMAIN population' :
            (population[i].ref = population'[j].ref
             /\ population[i].genome # population'[j].genome) =>
                /\ population'[j].fitness = UnscoredFitness * Unit
                /\ population'[j].breakdown = EmptyDict]_vars

\* C28: when the run is done, the champion is an individual of the final
\* population and no individual of it has a greater fitness.
C28_ChampionIsFittest ==
    evo_pc = "done" =>
        /\ \E i \in DOMAIN population : population[i] = champion
        /\ \A j \in DOMAIN population : population[j].fitness <= champion.fitness

C28_Witness ==
    /\ evo_pc = "done" /\ epoch = evo_config.generations
    /\ \E j \in DOMAIN population : population[j].fitness < champion.fitness
    /\ \E j \in DOMAIN population :
        population[j] # champion /\ population[j].fitness = champion.fitness

\* The phase the run is in, or is about to carry out, at each position.
Phase(pc) ==
    CASE pc = "calibrate" -> "Calibrate"
      [] pc = "seed" -> "Seed"
      [] pc \in {"submit", "collect"} -> "Evaluate"
      [] pc \in {"select", "record_champion"} -> "Select"
      [] pc = "mutate" -> "Mutate"
      [] pc \in {"terminate", "done"} -> "Terminate"
      [] OTHER -> "Failed"

\* The order of the phases; a phase that raises or is aborted ends the run.
PhaseOrder ==
    { <<"Calibrate", "Seed">>, <<"Seed", "Evaluate">>, <<"Seed", "Terminate">>,
      <<"Evaluate", "Select">>, <<"Select", "Mutate">>, <<"Mutate", "Evaluate">>,
      <<"Mutate", "Terminate">> }
    \cup { <<phase, "Failed">> :
             phase \in {"Calibrate", "Seed", "Evaluate", "Select", "Mutate",
                        "Terminate"} }

Outstanding(fs) == { i \in DOMAIN fs : fs[i].state = "pending" }

\* C29: the run changes phase only along Calibrate, Seed, then per
\* generation Evaluate, Select, Mutate, then Terminate; while it is in Select
\* or Mutate one evaluation has been submitted for every individual and none
\* is outstanding; and an evaluation is submitted only at the head of a
\* generation, which is entered from Seed or from Mutate.
C29_PhasesInOrder ==
    [][/\ Phase(evo_pc') # Phase(evo_pc)
            => <<Phase(evo_pc), Phase(evo_pc')>> \in PhaseOrder
       /\ Phase(evo_pc') \in {"Select", "Mutate"}
            => /\ Outstanding(futures') = {}
               /\ DOMAIN futures' = DOMAIN population'
       /\ Outstanding(futures') \ Outstanding(futures) # {}
            => /\ evo_pc = "submit"
               /\ Outstanding(futures) = {}]_vars

C29_Witness ==
    /\ evo_pc = "select" /\ epoch = 1
    /\ Len(futures) = evo_config.population_size /\ Outstanding(futures) = {}

Event(event_type, block_height) ==
    [event_type |-> event_type, block_height |-> block_height]

\* The events of the generations g, g + 1, ... below generations.
RECURSIVE GenerationEvents(_, _)
GenerationEvents(g, generations) ==
    IF g >= generations THEN <<>>
    ELSE <<Event("EVALUATION_COMPLETE", g + 1), Event("CHAMPION_UPDATED", g + 1)>>
         \o GenerationEvents(g + 1, generations)

\* C30: in a run that completes, the ledger has received after its GENESIS
\* event, in this order: one INITIAL_POPULATION_CREATED; for every generation
\* g in increasing order one EVALUATION_COMPLETE then one CHAMPION_UPDATED,
\* both with block_height g + 1; and one FINAL_CHAMPION_SYNTHESIZED.
C30_LedgerEventsInOrder ==
    evo_pc = "done" =>
        /\ Head(ledger_events).event_type = "GENESIS"
        /\ Tail(ledger_events) =
              <<Event("INITIAL_POPULATION_CREATED", 0)>>
              \o GenerationEvents(0, evo_config.generations)
              \o <<Event("FINAL_CHAMPION_SYNTHESIZED", evo_config.generations + 1)>>

C30_Witness ==
    /\ evo_pc = "done" /\ evo_config.generations = 2
    /\ ledger_events[Len(ledger_events)].event_type = "FINAL_CHAMPION_SYNTHESIZED"
    /\ Len(ledger_events) = 7

\* The current state is not a key of the genome's states.
Dangling == current_state \notin DOMAIN Get(genome, "states", EmptyDict)

\* C40: once the current state is not a key of the genome's states, no step
\* of the run changes it, and no step sees or records a policy violation.
C40_DanglingStateIsInert ==
    [][Dangling =>
        /\ current_state' = current_state
        /\ violation_seen' = violation_seen
        /\ violation_recorded' = violation_recorded
        /\ outcome' = "policy_violation" => outcome = "policy_violation"]_vars

C40_Witness ==
    /\ genome = GenomeDangling /\ current_state = "Z"
    /\ Len(telemetry) = MaxSamples /\ telemetry[1].cpu_percent_total >= 1
    /\ mon_pc = "loop" /\ ~violation_recorded

\* C31: whenever the run has ended on a fatal abort (a failed calibration, a
\* failed Select, a crashed worker or a freeze found by the watchdog), the
\* ledger has been saved.
C31_FatalAbortSavesLedger ==
    evo_pc \in {"failed", "aborted"} => ledger_saved

\* The evaluation of some individual of the generation has crashed.
HasCrashed(fs) == \E i \in DOMAIN fs : fs[i].state = "crashed"

\* C32: the step on which a worker crashes ends the run as failed: it and
\* every later step leave the population (the crashed individual's fitness
\* included), the generation number, the ledger's events and the champion as
\* they were, so no Select, no Mutate, no later generation and no final
\* champion event follows.
C32_WorkerCrashAbortsRun ==
    [][HasCrashed(futures') =>
        /\ evo_pc' = "failed"
        /\ champion' = EmptyDict
        /\ UNCHANGED <<population, epoch, ledger_events, champion>>]_vars

C32_Witness ==
    /\ evo_pc = "failed" /\ epoch = 1 /\ HasCrashed(futures)
    /\ \E i \in DOMAIN futures : futures[i].state = "done"
    /\ \E i \in DOMAIN futures : futures[i].state = "pending"

\* C37: the watchdog never aborts the run in an evaluation phase in which a
\* worker has completed an evaluation since time last moved on.
C37_WatchdogSparesProgress ==
    [][(evo_pc' = "aborted" /\ evo_pc # "aborted")
            => ~(evo_pc = "collect" /\ returned_since_tick)]_vars

\* C38: the merge of a generation's results leaves every individual with the
\* genome it had, and with the fitness and the breakdown that the evaluation
\* of that genome yields.
C38_MergeScoresOwnGenome ==
    [][(evo_pc = "collect" /\ evo_pc' = "select") =>
        \A p \in DOMAIN population :
            \E q \in DOMAIN population' :
                /\ population'[q].ref = population[p].ref
                /\ population'[q].genome = population[p].genome
                /\ LET result == evaluate_genome_worker(population'[q], epoch, q)
                   IN  /\ population'[q].fitness = result.fitness
                       /\ population'[q].breakdown = result.breakdown]_vars

\* C39: the champion of a finished run has the fitness and the breakdown that
\* the evaluation of the genome it holds yields.
C39_ChampionScoreIsOfItsGenome ==
    evo_pc = "done" =>
        LET result == evaluate_genome_worker(champion, epoch, 1)
        IN  /\ champion.fitness = result.fitness
            /\ champion.breakdown = result.breakdown

\* The number of individuals of pop at the positions S that have the fitness
\* and the id given.
CountOf(pop, S, fitness, id) ==
    Cardinality({ p \in S : pop[p].fitness = fitness /\ pop[p].id = id })

\* C35: of individuals of equal fitness Select keeps as elites those with the
\* lower ids: when an elite has the fitness of an individual with a lower id,
\* every individual with that fitness and that lower id is an elite too.
C35_TiedElitesHaveLowerIds ==
    [][(evo_pc = "select" /\ evo_pc' = "record_champion") =>
        LET elites == 1..evo_config.elitism_count
        IN  \A e \in elites : \A p \in DOMAIN population :
                (/\ population[p].fitness = population'[e].fitness
                 /\ population[p].id < population'[e].id)
                => CountOf(population', elites, population[p].fitness, population[p].id)
                     = CountOf(population, DOMAIN population,
                               population[p].fitness, population[p].id)]_vars

\* The individual is one of the elites the last Select step put at the head of
\* the new population.
IsElite(individual) ==
    individual.ref[1] = "copy" /\ individual.ref[3] <= evo_config.elitism_count

\* C36: every genome of the population has max_cpu_percent within [1.0, 95.0],
\* and a Mutate step leaves each individual's value as it was or, for an
\* individual that is not an elite, sets it to the old value times a change
\* factor, clamped to [1.0, 95.0].
C36_GenomesStayInRange ==
    [][/\ \A j \in DOMAIN population' :
            population'[j].genome.max_cpu_percent \in 100..9500
       /\ MutateStep =>
            \A p \in DOMAIN population :
                \E q \in DOMAIN population' :
                    /\ population'[q].ref = population[p].ref
                    /\ LET old == population[p].genome.max_cpu_percent
                           new == population'[q].genome.max_cpu_percent
                       IN  \/ new = old
                           \/ /\ ~IsElite(population[p])
                              /\ \E factor \in ChangeFactors :
                                    new = clamp_cpu_percent((old * factor) \div 100)]_vars

(***************************************************************************)
(* The audit ledger: cosmos/ledger/ledger.py.                              *)
(***************************************************************************)
\* The number of blocks a ledger holds at most here, the GENESIS block included.
MaxBlocks == 3

\* self.genesis_hash = '0' * 64, written as a number.
genesis_hash == 0

\* The digests other than sixty-four zeros.
HashSpace == 96

EventTypes == <<"GENESIS", "EVALUATION_COMPLETE", "CHAMPION_UPDATED">>

BlockHeights == 0..1

\* binascii.hexlify(os.urandom(4)) and the timestamp: what a block holds that
\* its caller does not choose.
Nonces == 0..1

TypeCode(event_type) ==
    CHOOSE c \in DOMAIN EventTypes : EventTypes[c] = event_type

\* _calculate_block_hash: a digest of every field of the block, the hash of
\* the block before it included.
calculate_block_hash(block) ==
    1 + ((block.nonce + 2 * block.block_height + 4 * TypeCode(block.event_type)
            + 16 * block.previous_hash) % HashSpace)

\* The block record_event builds and appends, with its block_hash.
new_block(previous, block_height, event_type, nonce) ==
    LET block == [block_height |-> block_height, nonce |-> nonce,
                  event_type |-> event_type, previous_hash |-> previous]
    IN  [block_height |-> block_height, nonce |-> nonce,
         event_type |-> event_type, previous_hash |-> previous,
         block_hash |-> calculate_block_hash(block)]

\* Faulty variant of chained_hash: previous_hash keeps its value.
stale_hash(previous, current) == previous

\* self.previous_hash = current_hash
chained_hash(previous, current) == current

\* Ledger.__init__: the empty list, the genesis hash and the GENESIS block.
InitLedger ==
    /\ ev_node = <<>> /\ ev_reading = EmptyDict /\ ev_result = "not_evaluated"
    /\ RunIdle
    /\ FitIdle
    /\ EvoIdle
    /\ \E nonce \in Nonces :
        LET block == new_block(genesis_hash, 0, "GENESIS", nonce)
        IN  /\ events = <<block>>
            /\ previous_hash = chained_hash(genesis_hash, block.block_hash)

\* Ledger.record_event(block_height, event_type, details)
RecordEvent ==
    /\ Len(events) < MaxBlocks
    /\ \E block_height \in BlockHeights, nonce \in Nonces,
          event_type \in { EventTypes[c] : c \in DOMAIN EventTypes } :
        LET block == new_block(previous_hash, block_height, event_type, nonce)
        IN  /\ events' = Append(events, block)
            /\ previous_hash' = chained_hash(previous_hash, block.block_hash)
    /\ UNCHANGED <<evalVars, runVars, histVars, fitVars, evoVars>>

SpecLedger == InitLedger /\ [][RecordEvent]_vars

(***************************************************************************)
(* Properties of the ledger.                                               *)
(***************************************************************************)
\* The blocks are a hash chain that starts at the GENESIS block.
IsChain(blocks) ==
    /\ blocks # <<>>
    /\ blocks[1].event_type = "GENESIS"
    /\ blocks[1].previous_hash = genesis_hash
    /\ \A i \in 2..Len(blocks) : blocks[i].previous_hash = blocks[i - 1].block_hash

\* C34: before and after every record_event call the ledger is a hash chain
\* (the first block is GENESIS with previous_hash sixty-four zeros, every
\* later block's previous_hash is the block_hash of the block before it), and
\* the call leaves the blocks it found in place, unchanged and in order.
C34_LedgerIsHashChain ==
    [][/\ IsChain(events) /\ IsChain(events')
       /\ Len(events') >= Len(events)
       /\ SubSeq(events', 1, Len(events)) = events]_vars

C34_Witness ==
    /\ Len(events) = 3
    /\ events[3].previous_hash = events[2].block_hash
    /\ events[2].previous_hash = events[1].block_hash
    /\ events[2].block_hash # events[1].block_hash
    /\ events[1].previous_hash = genesis_hash

(***************************************************************************)
(* The instrumented run of the sentinel foundry:                           *)
(* cosmos/foundry/titans_sentinel.py, ExecutionTitan.instrumented_run.     *)
(* max_cpu_percent and the CPU readings are counted in hundredths of a     *)
(* percent.                                                                *)
(***************************************************************************)
\* permissive_genome = {'max_cpu_percent': 100.0} of calibrate.
PermissiveGenome == [max_cpu_percent |-> 10000]

SentinelGenomes == {PermissiveGenome, [max_cpu_percent |-> 3000], EmptyDict}

\* What p.cpu_percent(interval=0.05) returns: the CPU time charged to the
\* process in the interval over the length of the interval.  psutil does not
\* cap it at 100: CPU time is charged in whole clock ticks, and threads on
\* several cores add up.
SentinelCpuReadings == {0, 10000, 15000}

\* Line 67: the policy test on the last reading.
policy_kills(policy, samples) ==
    /\ samples # <<>>
    /\ Get(policy, "max_cpu_percent", 10000) < samples[Len(samples)].cpu_percent

\* The variables of the run that the sentinel's instrumented_run does not have.
sentinelUnused ==
    <<evalVars, fitVars, evoVars, ledgerVars, current_state, reading, mon_thread,
      pending_exc, result_outcome, returncode, violation_seen, violation_recorded,
      recorded_when_wait_ended, timeout_raised, join_timed_out>>

\* Lines 44-75: the child is running and the monitor thread has started.
InitSentinel ==
    /\ ev_node = <<>> /\ ev_reading = EmptyDict /\ ev_result = "not_evaluated"
    /\ FitIdle
    /\ EvoIdle
    /\ LedgerIdle
    /\ genome \in SentinelGenomes
    /\ main_pc = "communicate" /\ mon_pc = "sample"
    /\ child = "running" /\ exit_status = None /\ returncode = None
    /\ outcome = "unknown_error" /\ current_state = None
    /\ telemetry = <<>> /\ reading = EmptyDict /\ stop_monitoring = FALSE
    /\ mon_thread = TRUE /\ pending_exc = None /\ result_outcome = "not_returned"
    /\ violation_seen = FALSE /\ violation_recorded = FALSE
    /\ recorded_when_wait_ended = FALSE /\ timeout_raised = FALSE
    /\ killer = None /\ join_timed_out = FALSE

\* Lines 61-65: the loop test and one sample; psutil raises NoSuchProcess once
\* the child is gone, which line 69 swallows.
SentinelSample ==
    /\ mon_pc = "sample"
    /\ IF stop_monitoring \/ child # "running"
       THEN mon_pc' = "terminated" /\ UNCHANGED telemetry
       ELSE /\ Len(telemetry) < MaxSamples
            /\ \E cpu \in SentinelCpuReadings :
                telemetry' = Append(telemetry, [cpu_percent |-> cpu])
            /\ mon_pc' = "policy"
    /\ UNCHANGED <<sentinelUnused, genome, main_pc, child, exit_status, outcome,
                   stop_monitoring, killer>>

\* Lines 67-68: the policy enforcement.
SentinelPolicy ==
    /\ mon_pc = "policy"
    /\ IF policy_kills(genome, telemetry)
       THEN IF child = "running"
            THEN /\ child' = "zombie" /\ exit_status' = Killed
                 /\ killer' = "monitor" /\ mon_pc' = "sample"
            ELSE mon_pc' = "terminated" /\ UNCHANGED <<child, exit_status, killer>>
       ELSE mon_pc' = "sample" /\ UNCHANGED <<child, exit_status, killer>>
    /\ UNCHANGED <<sentinelUnused, genome, main_pc, outcome, telemetry, stop_monitoring>>

\* The child ends by itself.
SentinelChildExits ==
    /\ child = "running"
    /\ child' = "zombie"
    /\ exit_status' \in {ExitClean, ExitCrash}
    /\ UNCHANGED <<sentinelUnused, genome, main_pc, mon_pc, outcome, telemetry,
                   stop_monitoring, killer>>

\* Lines 77-81: communicate returns and the outcome is read off the return code.
SentinelCommunicateReturns ==
    /\ main_pc = "communicate" /\ child = "zombie"
    /\ child' = "reaped"
    /\ outcome' = IF exit_status = ExitClean THEN "survived" ELSE "crashed"
    /\ main_pc' = "finally"
    /\ UNCHANGED <<sentinelUnused, genome, mon_pc, exit_status, telemetry,
                   stop_monitoring, killer>>

\* Lines 83-86: communicate times out and the child, still running, is killed.
SentinelCommunicateTimesOut ==
    /\ main_pc = "communicate" /\ child = "running"
    /\ outcome' = "timed_out"
    /\ child' = "zombie" /\ exit_status' = Killed /\ killer' = "main"
    /\ main_pc' = "finally"
    /\ UNCHANGED <<sentinelUnused, genome, mon_pc, telemetry, stop_monitoring>>

\* Lines 89-92: the finally block.
SentinelFinally ==
    /\ main_pc = "finally"
    /\ stop_monitoring' = TRUE
    /\ main_pc' = "done"
    /\ UNCHANGED <<sentinelUnused, genome, mon_pc, child, exit_status, outcome,
                   telemetry, killer>>

NextSentinel ==
    \/ SentinelSample \/ SentinelPolicy \/ SentinelChildExits
    \/ SentinelCommunicateReturns \/ SentinelCommunicateTimesOut
    \/ SentinelFinally

SpecSentinel == InitSentinel /\ [][NextSentinel]_vars

(***************************************************************************)
(* Properties of the sentinel's instrumented run.                          *)
(***************************************************************************)
\* C33: the monitor never kills a run under the permissive genome of
\* calibrate, whatever the sampler reads.
C33_CalibrationRunNeverKilled ==
    genome = PermissiveGenome => killer # "monitor"
====
